---- MODULE Spec2Model ----
(***************************************************************************)
(* Pet-registry blockchain (pet_blockchain.py, blockchain_client.py).      *)
(*                                                                         *)
(* State: the Blockchain object (chain, unconfirmed_transactions), its     *)
(* PetRegistry (pets), the wall clock read by time(), and the record of    *)
(* the most recent call with its return value, the sequence of every       *)
(* transaction ever appended to the pool, and each request thread's        *)
(* position and locals.                                                    *)
(*                                                                         *)
(* Python values: str is a TLA+ string, int/float a number, None the       *)
(* string "null", dict a record (a function on its keys), list a sequence. *)
(* hashlib.sha256 is an external primitive: it is modelled by a small      *)
(* deterministic digest over the serialized content, rendered as           *)
(* DigestLen lowercase hex characters.                                     *)
(***************************************************************************)
EXTENDS Integers, Sequences, FiniteSets, TLC

VARIABLES chain, unconfirmed_transactions, pets, now, last, emitted, pc, loc

vars == <<chain, unconfirmed_transactions, pets, now, last, emitted, pc, loc>>

-----------------------------------------------------------------------------
(* Program constants *)

MINING_SENDER == "BLOCKCHAIN_REWARD"
MINING_REWARD == 1
MINING_DIFFICULTY == 2

(* Bounds of the model *)

DigestLen == 4
PowStride == 64
MaxSteps == 3

-----------------------------------------------------------------------------
(* Python values *)

None == "null"
PyBool(b) == [bool |-> b]
PyStr(s) == [str |-> s]
PyInt(n) == [int |-> n]
PyList(l) == [list |-> l]

Get(d, k, default) == IF k \in DOMAIN d THEN d[k] ELSE default

\* s[:n]
Take(s, n) == SubSeq(s, 1, IF n < Len(s) THEN n ELSE Len(s))

Last(s) == s[Len(s)]

-----------------------------------------------------------------------------
(* Serialization and digest *)

\* Every dict key of the program, in the order sort_keys=True emits them.
SortedKeys ==
    << "amount", "block_number", "description", "finder_contact",
       "finder_public_key_hash", "location", "microchip_id", "nonce",
       "owner_public_key_hash", "pet_id", "pet_name", "previous_hash",
       "recipient_public_key_hash", "record_id", "record_type",
       "sender_public_key_hash", "species", "status", "timestamp",
       "transactions", "type", "vet_name", "view_count",
       "viewer_public_key_hash" >>

IntKeys == {"amount", "block_number", "nonce", "timestamp", "view_count"}
ListKeys == {"transactions"}

\* The strings the model's callers and the program's literals are made of.
Atoms ==
    SortedKeys \o
    << "null", "_", "UNKNOWN_KEY", "BLOCKCHAIN_REWARD", "NO_CHIP", "dog",
       "active", "lost", "pending",
       "PET_REGISTRATION", "VET_RECORD", "PROFILE_VIEW", "PET_LOST",
       "PET_FOUND",
       "K1", "K2", "NODE1", "C1", "Rex", "cat", "vaccination", "Dr. Smith",
       "Central Park", "Ran away", "555-0100", "previous_hash_test",
       "City2", "second" >>

AtomSet == {Atoms[i] : i \in DOMAIN Atoms}
\* Codes 0..15 are the hex digits; the i-th atom has code 16 + i.
AtomCodes == [s \in AtomSet |-> 16 + (CHOOSE i \in DOMAIN Atoms : Atoms[i] = s)]
AtomCode(s) == AtomCodes[s]

HexChars == <<"0", "1", "2", "3", "4", "5", "6", "7",
              "8", "9", "a", "b", "c", "d", "e", "f">>
HexVals == [c \in {HexChars[i] : i \in DOMAIN HexChars} |->
               (CHOOSE i \in DOMAIN HexChars : HexChars[i] = c) - 1]
HexVal(c) == HexVals[c]

\* str.encode(): an atom is one code, a hex string one code per character.
EncStr(s) ==
    IF s \in AtomSet THEN <<AtomCode(s)>>
    ELSE [i \in 1..Len(s) |-> HexVal(SubSeq(s, i, i))]

KeyCode(k) == AtomCode(k)

RECURSIVE DumpFields(_, _, _), DumpList(_, _)
\* The fields of dict d under the sorted keys ks, from the i-th on.
DumpFields(d, ks, i) ==
    IF i > Len(ks) THEN <<>>
    ELSE LET k == ks[i]
             v == d[k]
         IN <<KeyCode(k)>> \o
            (IF k \in IntKeys THEN <<v>>
             ELSE IF k \in ListKeys THEN DumpList(v, 1)
             ELSE EncStr(v)) \o
            DumpFields(d, ks, i + 1)
\* json.dumps(l, sort_keys=True) of a list of dicts, from the i-th on.
DumpList(l, i) ==
    IF i > Len(l) THEN <<Len(l)>>
    ELSE DumpFields(l[i], SelectSeq(SortedKeys, LAMBDA k : k \in DOMAIN l[i]), 1)
         \o DumpList(l, i + 1)

json_dumps(x) == DumpList(x, 1)
json_dumps_dict(d) ==
    DumpFields(d, SelectSeq(SortedKeys, LAMBDA k : k \in DOMAIN d), 1)

DigestSpace == 16 ^ DigestLen
DigestMult == 2 * ((DigestSpace * 309) \div 1000) + 1

Absorb1(h, c) == (h * 31 + c + 7) % DigestSpace

RECURSIVE AbsorbRange(_, _, _, _)
\* The digest state after absorbing codes[lo..hi] one by one, in order
\* (split in halves, the left half first, to keep the evaluation shallow).
AbsorbRange(h, codes, lo, hi) ==
    IF lo > hi THEN h
    ELSE IF lo = hi THEN Absorb1(h, codes[lo])
    ELSE LET mid == (lo + hi) \div 2
             left == AbsorbRange(h, codes, lo, mid)
         IN IF left >= 0 THEN AbsorbRange(left, codes, mid + 1, hi) ELSE left

Absorb(h, codes) == AbsorbRange(h, codes, 1, Len(codes))

\* (a * b) % DigestSpace, in 32-bit arithmetic
MulMod(a, b) ==
    LET hi == (a * (b \div 16384)) % DigestSpace
        mid == (hi * 128 + a * ((b \div 128) % 128)) % DigestSpace
    IN (mid * 128 + a * (b % 128)) % DigestSpace

Finalize(h) == MulMod(h, DigestMult)

RECURSIVE HexRender(_, _)
\* The n low hex digits of v, most significant first.
HexRender(v, n) ==
    IF n = 0 THEN ""
    ELSE HexRender(v \div 16, n - 1) \o HexChars[(v % 16) + 1]

\* hashlib.sha256(codes).hexdigest()
sha256_hexdigest(codes) == HexRender(Finalize(Absorb(5381, codes)), DigestLen)

-----------------------------------------------------------------------------
(* hashed_key *)

\* A hashed_key that hands the key back as it is
hashed_key_in_the_clear(raw_key) ==
    IF raw_key = None \/ raw_key = "" THEN "UNKNOWN_KEY" ELSE raw_key

hashed_key(raw_key) ==
    IF raw_key = None \/ raw_key = "" THEN "UNKNOWN_KEY"
    ELSE Take(sha256_hexdigest(EncStr(raw_key)), 24)

-----------------------------------------------------------------------------
(* PetRegistry: pets holds the profiles in dict insertion order *)

DictSet(d, k, v) == [x \in DOMAIN d \cup {k} |-> IF x = k THEN v ELSE d[x]]

\* pet_id in self.pets
HasPet(ps, pet_id) == \E i \in DOMAIN ps : ps[i].pet_id = pet_id
PetIndex(ps, pet_id) == CHOOSE i \in DOMAIN ps : ps[i].pet_id = pet_id

\* self.pets.get(pet_id), for a pet_id that is present
get_pet(ps, pet_id) == ps[PetIndex(ps, pet_id)]

\* self.pets[pet_id] = profile
StorePet(ps, pet_id, profile) ==
    IF HasPet(ps, pet_id) THEN [ps EXCEPT ![PetIndex(ps, pet_id)] = profile]
    ELSE Append(ps, profile)

generate_pet_id(microchip_id, owner_public_key, t) ==
    Take(sha256_hexdigest(EncStr(microchip_id) \o EncStr("_") \o
                          EncStr(owner_public_key) \o EncStr("_") \o <<t>>), 16)

new_record_id(pet_id, t) ==
    Take(sha256_hexdigest(EncStr(pet_id) \o EncStr("_") \o <<t>>), 12)

new_profile(pet_id, pet_data, t) ==
    [ pet_id |-> pet_id,
      name |-> Get(pet_data, "name", None),
      breed |-> Get(pet_data, "breed", None),
      species |-> Get(pet_data, "species", "dog"),
      birth_date |-> Get(pet_data, "birth_date", None),
      color |-> Get(pet_data, "color", None),
      weight |-> Get(pet_data, "weight", None),
      microchip_id |-> Get(pet_data, "microchip_id", None),
      photo |-> Get(pet_data, "photo", None),
      owner_public_key_hash |-> hashed_key(Get(pet_data, "owner_public_key", None)),
      owner_public_key |-> Get(pet_data, "owner_public_key", None),
      owner_name |-> Get(pet_data, "owner_name", None),
      owner_phone |-> Get(pet_data, "owner_phone", None),
      owner_email |-> Get(pet_data, "owner_email", None),
      registered_at |-> t,
      vet_records |-> <<>>,
      view_count |-> 0,
      status |-> "active" ]

create_pet_profile(ps, pet_id, pet_data, t) ==
    StorePet(ps, pet_id, new_profile(pet_id, pet_data, t))

new_vet_record(pet_id, record, t) ==
    [ record_id |-> new_record_id(pet_id, t),
      record_type |-> Get(record, "record_type", None),
      vet_name |-> Get(record, "vet_name", None),
      vet_clinic |-> Get(record, "vet_clinic", None),
      vet_phone |-> Get(record, "vet_phone", None),
      procedure |-> Get(record, "procedure", None),
      notes |-> Get(record, "notes", None),
      date |-> Get(record, "date", t),
      next_due_date |-> Get(record, "next_due_date", None),
      timestamp |-> t ]

\* PetRegistry.add_vet_record, for a pet_id that is present
add_vet_record(ps, pet_id, record, t) ==
    [ps EXCEPT ![PetIndex(ps, pet_id)].vet_records =
                   Append(@, new_vet_record(pet_id, record, t))]

mark_pet_lost(ps, pet_id, location, description, t) ==
    IF ~HasPet(ps, pet_id) THEN ps
    ELSE [ps EXCEPT ![PetIndex(ps, pet_id)] =
             DictSet(DictSet(DictSet(DictSet(@, "status", "lost"),
                                     "lost_location", location),
                             "lost_description", description),
                     "lost_since", t)]

\* A mark_pet_found that does not record who found the pet
mark_pet_found_by_nobody(ps, pet_id, found_by, t) ==
    IF ~HasPet(ps, pet_id) THEN ps
    ELSE [ps EXCEPT ![PetIndex(ps, pet_id)] =
             DictSet(DictSet(@, "status", "active"), "found_at", t)]

mark_pet_found(ps, pet_id, found_by, t) ==
    IF ~HasPet(ps, pet_id) THEN ps
    ELSE [ps EXCEPT ![PetIndex(ps, pet_id)] =
             DictSet(DictSet(DictSet(@, "status", "active"),
                             "found_by", found_by),
                     "found_at", t)]

increment_view_count(ps, pet_id) ==
    IF ~HasPet(ps, pet_id) THEN ps
    ELSE [ps EXCEPT ![PetIndex(ps, pet_id)].view_count = @ + 1]

-----------------------------------------------------------------------------
(* Blockchain: pure parts *)

\* Blockchain.hash
hash(block) == sha256_hexdigest(json_dumps_dict(block))

\* The keys of a block dict, in the insertion order of create_block's literal
BlockKeys == <<"block_number", "timestamp", "transactions", "nonce", "previous_hash">>

\* sort_keys=True: the keys of a dict, given in insertion order, as json.dumps
\* emits them
sorted_keys(keys) ==
    SelectSeq(SortedKeys, LAMBDA k : \E i \in DOMAIN keys : keys[i] = k)

\* A hash over the fields in the order they were inserted (no sort_keys)
hash_of_insertion_order(keys, block) ==
    sha256_hexdigest(DumpFields(block, keys, 1))

\* Blockchain.hash of a dict whose keys were inserted in the order keys
hash_of(keys, block) ==
    sha256_hexdigest(DumpFields(block, sorted_keys(keys), 1))

\* The dict literal of create_block
new_block(ch, pool, nonce, previous_hash, t) ==
    [ block_number |-> Len(ch) + 1,
      timestamp |-> t,
      transactions |-> pool,
      nonce |-> nonce,
      previous_hash |-> previous_hash ]

\* The digest state after json.dumps(pool) + str(last_hash), before str(nonce)
guess_state(pool, last_hash) ==
    Absorb(5381, json_dumps(pool) \o EncStr(last_hash))

guess_hash(gs, nonce) == HexRender(Finalize(Absorb(gs, <<nonce>>)), DigestLen)

\* guess_hash[:MINING_DIFFICULTY] == "0" * MINING_DIFFICULTY: the leading
\* MINING_DIFFICULTY hex digits of the digest value are zero
valid_guess(gs, nonce) ==
    Finalize(Absorb(gs, <<nonce>>)) < 16 ^ (DigestLen - MINING_DIFFICULTY)

\* PowStride iterations of the while loop, from nonce on: the nonce it
\* returns, or -1 when none of them returns.
pow_scan(gs, nonce) ==
    LET hits == {n \in nonce..(nonce + PowStride - 1) : valid_guess(gs, n)}
    IN IF hits = {} THEN -1 ELSE CHOOSE n \in hits : \A m \in hits : n <= m

RECURSIVE pow_loop(_, _)
\* The while loop of proof_of_work, from nonce on.
pow_loop(gs, nonce) ==
    LET found == pow_scan(gs, nonce)
    IN IF found >= 0 THEN found ELSE pow_loop(gs, nonce + PowStride)

\* A search that increments the nonce once more before returning it
proof_of_work_past(ch, pool) ==
    LET last_hash == hash(Last(ch))
        gs == guess_state(pool, last_hash)
    IN IF gs >= 0 THEN pow_loop(gs, 0) + 1 ELSE gs

\* Blockchain.proof_of_work, run without interruption
proof_of_work(ch, pool) ==
    LET last_hash == hash(Last(ch))
        gs == guess_state(pool, last_hash)
    IN IF gs >= 0 THEN pow_loop(gs, 0) ELSE gs

\* tx.get("pet_id") == pet_id
tx_matches(tx, pet_id) == "pet_id" \in DOMAIN tx /\ tx.pet_id = pet_id

\* A mined entry that is given the block's timestamp only
mined_entry_unnumbered(tx, block) == DictSet(tx, "block_timestamp", block.timestamp)

\* entry = tx.copy() with block_number and block_timestamp set
mined_entry(tx, block) ==
    DictSet(DictSet(tx, "block_number", block.block_number),
            "block_timestamp", block.timestamp)

\* p = tx.copy() with status = "pending"
pending_entry(tx) == DictSet(tx, "status", "pending")

RECURSIVE block_history(_, _, _)
\* for tx in block["transactions"], from the j-th on
block_history(block, pet_id, j) ==
    IF j > Len(block.transactions) THEN <<>>
    ELSE (IF tx_matches(block.transactions[j], pet_id)
          THEN <<mined_entry(block.transactions[j], block)>> ELSE <<>>)
         \o block_history(block, pet_id, j + 1)

RECURSIVE chain_history(_, _, _)
\* for block in self.chain, from the i-th on
chain_history(ch, pet_id, i) ==
    IF i > Len(ch) THEN <<>>
    ELSE block_history(ch[i], pet_id, 1) \o chain_history(ch, pet_id, i + 1)

RECURSIVE pool_history(_, _, _)
\* for tx in self.unconfirmed_transactions, from the j-th on
pool_history(pool, pet_id, j) ==
    IF j > Len(pool) THEN <<>>
    ELSE (IF tx_matches(pool[j], pet_id) THEN <<pending_entry(pool[j])>> ELSE <<>>)
         \o pool_history(pool, pet_id, j + 1)

\* A history that lists the pending entries before the mined ones
get_pet_blockchain_history_pending_first(ch, pool, pet_id) ==
    pool_history(pool, pet_id, 1) \o chain_history(ch, pet_id, 1)

\* Blockchain.get_pet_blockchain_history
get_pet_blockchain_history(ch, pool, pet_id) ==
    chain_history(ch, pet_id, 1) \o pool_history(pool, pet_id, 1)

RECURSIVE sum_vet_records(_, _)
\* sum(len(p["vet_records"]) for p in pets), from the i-th profile on
sum_vet_records(ps, i) ==
    IF i > Len(ps) THEN 0 ELSE Len(ps[i].vet_records) + sum_vet_records(ps, i + 1)

RECURSIVE sum_view_count(_, _)
\* sum(p["view_count"] for p in pets), from the i-th profile on
sum_view_count(ps, i) ==
    IF i > Len(ps) THEN 0 ELSE ps[i].view_count + sum_view_count(ps, i + 1)

\* Stats that count every profile as active
get_registry_stats_all_active(ps) ==
    [ total_pets |-> Len(ps),
      active_pets |-> Len(ps),
      lost_pets |-> Len(SelectSeq(ps, LAMBDA p : p.status = "lost")),
      total_vet_records |-> sum_vet_records(ps, 1),
      total_views |-> sum_view_count(ps, 1) ]

\* Blockchain.get_registry_stats
get_registry_stats(ps) ==
    LET lost == SelectSeq(ps, LAMBDA p : p.status = "lost")
    IN [ total_pets |-> Len(ps),
         active_pets |-> Len(SelectSeq(ps, LAMBDA p : p.status = "active")),
         lost_pets |-> Len(lost),
         total_vet_records |-> sum_vet_records(ps, 1),
         total_views |-> sum_view_count(ps, 1) ]

\* str.lower(), on the letters the callers' strings are made of
UpperChars == <<"A", "B", "C", "D", "E", "L", "R", "X", "Z">>
LowerChars == <<"a", "b", "c", "d", "e", "l", "r", "x", "z">>

lower_char(c) ==
    IF \E i \in DOMAIN UpperChars : UpperChars[i] = c
    THEN LowerChars[CHOOSE i \in DOMAIN UpperChars : UpperChars[i] = c]
    ELSE c

RECURSIVE lower(_)
lower(s) ==
    IF Len(s) = 0 THEN ""
    ELSE lower_char(SubSeq(s, 1, 1)) \o lower(SubSeq(s, 2, Len(s)))

\* q in s, for strings
str_contains(q, s) ==
    \E i \in 0..(Len(s) - Len(q)) : SubSeq(s, i + 1, i + Len(q)) = q

\* The condition of the if in search_pets for one profile: "match", "skip",
\* or "raise" when a field it reaches holds None (None has no lower())
query_test(pet, q) ==
    IF pet.name = None THEN "raise"
    ELSE IF str_contains(q, lower(pet.name)) THEN "match"
    ELSE IF pet.microchip_id = None THEN "raise"
    ELSE IF str_contains(q, lower(pet.microchip_id)) THEN "match"
    ELSE IF pet.breed = None THEN "raise"
    ELSE IF str_contains(q, lower(pet.breed)) THEN "match"
    ELSE IF str_contains(q, lower(pet.pet_id)) THEN "match"
    ELSE "skip"

RECURSIVE search_scan(_, _, _, _, _)
\* The for loop of search_pets from the i-th profile on, results so far given
search_scan(ps, query, lost_only, i, results) ==
    IF i > Len(ps) THEN PyList(results)
    ELSE IF lost_only /\ ps[i].status # "lost"
         THEN search_scan(ps, query, lost_only, i + 1, results)
    ELSE IF query = None \/ query = ""
         THEN search_scan(ps, query, lost_only, i + 1, Append(results, ps[i]))
    ELSE LET test == query_test(ps[i], lower(query))
         IN IF test = "raise" THEN [raises |-> "AttributeError"]
            ELSE search_scan(ps, query, lost_only, i + 1,
                             IF test = "match" THEN Append(results, ps[i])
                             ELSE results)

\* PetRegistry.search_pets: the list it returns, or the exception it raises
search_pets(ps, query, lost_only) == search_scan(ps, query, lost_only, 1, <<>>)

node_id == "NODE1"

transfer_tx(sender_public_key, recipient_public_key, amount, t) ==
    [ sender_public_key_hash |-> hashed_key(sender_public_key),
      recipient_public_key_hash |-> hashed_key(recipient_public_key),
      amount |-> amount,
      timestamp |-> t ]

registration_tx(pet_id, pet_data, owner_public_key, t) ==
    [ type |-> "PET_REGISTRATION",
      pet_id |-> pet_id,
      pet_name |-> Get(pet_data, "name", None),
      species |-> Get(pet_data, "species", None),
      microchip_id |-> Get(pet_data, "microchip_id", None),
      owner_public_key_hash |-> hashed_key(owner_public_key),
      timestamp |-> t ]

vet_record_tx(pet_id, rc, owner_public_key, t) ==
    [ type |-> "VET_RECORD",
      pet_id |-> pet_id,
      record_id |-> rc.record_id,
      record_type |-> rc.record_type,
      vet_name |-> rc.vet_name,
      owner_public_key_hash |-> hashed_key(owner_public_key),
      timestamp |-> t ]

profile_view_tx(pet_id, viewer_public_key, count, t) ==
    [ type |-> "PROFILE_VIEW",
      pet_id |-> pet_id,
      viewer_public_key_hash |-> hashed_key(viewer_public_key),
      view_count |-> count,
      timestamp |-> t ]

pet_lost_tx(pet_id, location, description, owner_public_key, t) ==
    [ type |-> "PET_LOST",
      pet_id |-> pet_id,
      location |-> location,
      description |-> description,
      owner_public_key_hash |-> hashed_key(owner_public_key),
      timestamp |-> t ]

pet_found_tx(pet_id, finder_public_key, finder_contact, t) ==
    [ type |-> "PET_FOUND",
      pet_id |-> pet_id,
      finder_public_key_hash |-> hashed_key(finder_public_key),
      finder_contact |-> finder_contact,
      timestamp |-> t ]

-----------------------------------------------------------------------------
(* Callers' inputs *)

OwnerKeys == {"K1", "K2"}
PetDatas == {[name |-> "Rex", microchip_id |-> "C1"]}
\* Pet data with every optional field missing, and with a species and an
\* owner_public_key entry of its own
SparsePetDatas == {<<>>, [species |-> "cat", owner_public_key |-> "K2"]}
VetInputs == {[record_type |-> "vaccination", vet_name |-> "Dr. Smith"]}
ViewerKeys == {"K2"}
FinderKeys == {"K2"}
Contacts == {"555-0100"}
Locations == {"Central Park"}
Descriptions == {"Ran away"}
\* The places and descriptions of a pet reported lost a second time
LaterLocations == {"Central Park", "City2"}
LaterDescriptions == {"Ran away", "second"}
UnknownPetId == "no-such-pet"
\* Pet data with a name, a microchip_id and a breed
FullPetDatas == {[name |-> "Rex", microchip_id |-> "C1", breed |-> "Lab"]}
\* Search queries: none, a name in another case, a chip number, a breed, no match
Queries == {None, "REX", "c1", "LA", "zz"}
\* The JSON bodies of registration requests: complete, and without an owner name
RegistrationRequests ==
    {[name |-> "Rex", owner_public_key |-> "K1", owner_name |-> "Ann",
      owner_phone |-> "555-0100"],
     [name |-> "Rex", owner_public_key |-> "K1", owner_phone |-> "555-0100"]}
\* The q / query parameters of search requests
RouteQueries == {"", "REX", "zz"}
\* Insertion orders of a block dict: create_block's, the reverse, a mixed one
KeyOrders ==
    {BlockKeys,
     <<"previous_hash", "nonce", "transactions", "timestamp", "block_number">>,
     <<"nonce", "block_number", "previous_hash", "transactions", "timestamp">>}
\* The hand-made block of test_hash_consistency
DummyBlock ==
    [block_number |-> 10, timestamp |-> 12345, transactions |-> <<>>,
     nonce |-> 99, previous_hash |-> "00"]
\* A key the caller left out (request.get_json().get(...) is None) or left empty
AbsentKeys == {None, ""}
VerifierOutcomes == {"valid", "invalid", "raises"}
Senders == {MINING_SENDER, "K1"}
DirectNonces == {12345}
ForeignHash == "previous_hash_test"
Routes == {"/mine", "/api/mine"}

PetIds == {pets[i].pet_id : i \in DOMAIN pets} \cup {UnknownPetId}

Threads == {1, 2}

-----------------------------------------------------------------------------
(* Construction: Blockchain.__init__ creates the genesis block *)

Init ==
    /\ now = 0
    /\ chain = <<new_block(<<>>, <<>>, 0, "00", 0)>>
    /\ unconfirmed_transactions = <<>>
    /\ pets = <<>>
    /\ emitted = <<>>
    /\ last = [op |-> "__init__"]
    /\ pc = [t \in Threads |-> "idle"]
    /\ loc = [t \in Threads |-> <<>>]

\* The model's budget: transactions appended, blocks created and clock
\* ticks so far.
Steps == Len(emitted) + (Len(chain) - 1) + now

\* A failed call: nothing but the return value
Returns(call) ==
    /\ last' = call
    /\ UNCHANGED <<chain, unconfirmed_transactions, pets, now, emitted, pc, loc>>

\* self.unconfirmed_transactions.append(tx)
Emit(tx) ==
    /\ Steps < MaxSteps
    /\ unconfirmed_transactions' = Append(unconfirmed_transactions, tx)
    /\ emitted' = Append(emitted, tx)

-----------------------------------------------------------------------------
(* Operations, each run from call to return without interleaving *)

\* time() returns a later value from now on
Tick ==
    /\ Steps < MaxSteps
    /\ now' = now + 1
    /\ UNCHANGED <<chain, unconfirmed_transactions, pets, last, emitted, pc, loc>>

\* A registration that stores the profile and appends no event
register_pet_unlogged(pet_data, owner_public_key) ==
    LET pet_id == generate_pet_id(Get(pet_data, "microchip_id", "NO_CHIP"),
                                  owner_public_key, now)
    IN /\ Steps < MaxSteps
       /\ pets' = create_pet_profile(pets, pet_id,
                       DictSet(pet_data, "owner_public_key", owner_public_key), now)
       /\ last' = [op |-> "register_pet", pet_data |-> pet_data,
                   owner_public_key |-> owner_public_key, ret |-> PyStr(pet_id)]
       /\ UNCHANGED <<chain, unconfirmed_transactions, emitted, now, pc, loc>>

\* A registration that keeps an owner_public_key entry of the pet data
register_pet_owner_from_data(pet_data, owner_public_key) ==
    LET pet_id == generate_pet_id(Get(pet_data, "microchip_id", "NO_CHIP"),
                                  owner_public_key, now)
    IN /\ pets' = create_pet_profile(pets, pet_id,
                       pet_data @@ [owner_public_key |-> owner_public_key], now)
       /\ Emit(registration_tx(pet_id, pet_data, owner_public_key, now))
       /\ last' = [op |-> "register_pet", pet_data |-> pet_data,
                   owner_public_key |-> owner_public_key, ret |-> PyStr(pet_id)]
       /\ UNCHANGED <<chain, now, pc, loc>>

register_pet(pet_data, owner_public_key) ==
    LET pet_id == generate_pet_id(Get(pet_data, "microchip_id", "NO_CHIP"),
                                  owner_public_key, now)
    IN /\ pets' = create_pet_profile(pets, pet_id,
                       DictSet(pet_data, "owner_public_key", owner_public_key), now)
       /\ Emit(registration_tx(pet_id, pet_data, owner_public_key, now))
       /\ last' = [op |-> "register_pet", pet_data |-> pet_data,
                   owner_public_key |-> owner_public_key, ret |-> PyStr(pet_id)]
       /\ UNCHANGED <<chain, now, pc, loc>>

\* A vet-record call that checks only that the pet exists
add_vet_record_to_pet_unchecked(pet_id, record, owner_public_key) ==
    LET call == [op |-> "add_vet_record_to_pet", pet_id |-> pet_id,
                 owner_public_key |-> owner_public_key]
    IN IF ~HasPet(pets, pet_id)
       THEN Returns(call @@ [ret |-> PyBool(FALSE)])
       ELSE LET rc == new_vet_record(pet_id, record, now)
            IN /\ pets' = add_vet_record(pets, pet_id, record, now)
               /\ Emit(vet_record_tx(pet_id, rc, owner_public_key, now))
               /\ last' = call @@ [ret |-> PyStr(rc.record_id)]
               /\ UNCHANGED <<chain, now, pc, loc>>

add_vet_record_to_pet(pet_id, record, owner_public_key) ==
    LET call == [op |-> "add_vet_record_to_pet", pet_id |-> pet_id,
                 owner_public_key |-> owner_public_key]
    IN IF ~HasPet(pets, pet_id)
          \/ get_pet(pets, pet_id).owner_public_key # owner_public_key
       THEN Returns(call @@ [ret |-> PyBool(FALSE)])
       ELSE LET rc == new_vet_record(pet_id, record, now)
            IN /\ pets' = add_vet_record(pets, pet_id, record, now)
               /\ Emit(vet_record_tx(pet_id, rc, owner_public_key, now))
               /\ last' = call @@ [ret |-> PyStr(rc.record_id)]
               /\ UNCHANGED <<chain, now, pc, loc>>

\* A view that skips the membership test: increment_view_count returns 0
\* for an unknown pet and the event is appended all the same
view_pet_profile_unchecked(pet_id, viewer_public_key) ==
    LET call == [op |-> "view_pet_profile", pet_id |-> pet_id,
                 viewer_public_key |-> viewer_public_key]
        after == increment_view_count(pets, pet_id)
        count == IF HasPet(pets, pet_id) THEN get_pet(after, pet_id).view_count ELSE 0
    IN /\ pets' = after
       /\ Emit(profile_view_tx(pet_id, viewer_public_key, count, now))
       /\ last' = call @@ [ret |-> PyBool(TRUE)]
       /\ UNCHANGED <<chain, now, pc, loc>>

view_pet_profile(pet_id, viewer_public_key) ==
    LET call == [op |-> "view_pet_profile", pet_id |-> pet_id,
                 viewer_public_key |-> viewer_public_key]
    IN IF ~HasPet(pets, pet_id)
       THEN Returns(call @@ [ret |-> PyBool(FALSE)])
       ELSE LET after == increment_view_count(pets, pet_id)
                count == get_pet(after, pet_id).view_count
            IN /\ pets' = after
               /\ Emit(profile_view_tx(pet_id, viewer_public_key, count, now))
               /\ last' = call @@ [ret |-> PyBool(TRUE)]
               /\ UNCHANGED <<chain, now, pc, loc>>

\* A report_pet_lost that refuses a pet that is lost already
report_pet_lost_once(pet_id, owner_public_key, location, description) ==
    LET call == [op |-> "report_pet_lost", pet_id |-> pet_id,
                 owner_public_key |-> owner_public_key,
                 location |-> location, description |-> description]
    IN IF ~HasPet(pets, pet_id)
          \/ get_pet(pets, pet_id).owner_public_key # owner_public_key
          \/ get_pet(pets, pet_id).status = "lost"
       THEN Returns(call @@ [ret |-> PyBool(FALSE)])
       ELSE /\ pets' = mark_pet_lost(pets, pet_id, location, description, now)
            /\ Emit(pet_lost_tx(pet_id, location, description, owner_public_key, now))
            /\ last' = call @@ [ret |-> PyBool(TRUE)]
            /\ UNCHANGED <<chain, now, pc, loc>>

\* A report_pet_lost that checks only that the pet exists
report_pet_lost_by_anyone(pet_id, owner_public_key, location, description) ==
    LET call == [op |-> "report_pet_lost", pet_id |-> pet_id,
                 owner_public_key |-> owner_public_key,
                 location |-> location, description |-> description]
    IN IF ~HasPet(pets, pet_id)
       THEN Returns(call @@ [ret |-> PyBool(FALSE)])
       ELSE /\ pets' = mark_pet_lost(pets, pet_id, location, description, now)
            /\ Emit(pet_lost_tx(pet_id, location, description, owner_public_key, now))
            /\ last' = call @@ [ret |-> PyBool(TRUE)]
            /\ UNCHANGED <<chain, now, pc, loc>>

report_pet_lost(pet_id, owner_public_key, location, description) ==
    LET call == [op |-> "report_pet_lost", pet_id |-> pet_id,
                 owner_public_key |-> owner_public_key,
                 location |-> location, description |-> description]
    IN IF ~HasPet(pets, pet_id)
          \/ get_pet(pets, pet_id).owner_public_key # owner_public_key
       THEN Returns(call @@ [ret |-> PyBool(FALSE)])
       ELSE /\ pets' = mark_pet_lost(pets, pet_id, location, description, now)
            /\ Emit(pet_lost_tx(pet_id, location, description, owner_public_key, now))
            /\ last' = call @@ [ret |-> PyBool(TRUE)]
            /\ UNCHANGED <<chain, now, pc, loc>>

\* A report_pet_found that checks only that the pet exists
report_pet_found_any_status(pet_id, finder_public_key, finder_contact) ==
    LET call == [op |-> "report_pet_found", pet_id |-> pet_id,
                 finder_public_key |-> finder_public_key,
                 finder_contact |-> finder_contact]
    IN IF ~HasPet(pets, pet_id)
       THEN Returns(call @@ [ret |-> PyBool(FALSE)])
       ELSE /\ pets' = mark_pet_found(pets, pet_id, finder_contact, now)
            /\ Emit(pet_found_tx(pet_id, finder_public_key, finder_contact, now))
            /\ last' = call @@ [ret |-> PyBool(TRUE)]
            /\ UNCHANGED <<chain, now, pc, loc>>

report_pet_found(pet_id, finder_public_key, finder_contact) ==
    LET call == [op |-> "report_pet_found", pet_id |-> pet_id,
                 finder_public_key |-> finder_public_key,
                 finder_contact |-> finder_contact]
    IN IF ~HasPet(pets, pet_id) \/ get_pet(pets, pet_id).status # "lost"
       THEN Returns(call @@ [ret |-> PyBool(FALSE)])
       ELSE /\ pets' = mark_pet_found(pets, pet_id, finder_contact, now)
            /\ Emit(pet_found_tx(pet_id, finder_public_key, finder_contact, now))
            /\ last' = call @@ [ret |-> PyBool(TRUE)]
            /\ UNCHANGED <<chain, now, pc, loc>>

\* A verifier whose except branch reports success
verify_transaction_signature_lenient(verifier) == verifier # "invalid"

\* Blockchain.verify_transaction_signature; verifier: what the RSA check
\* does for this call (it raises on a malformed key or signature)
verify_transaction_signature(verifier) ==
    IF verifier = "raises" THEN FALSE ELSE verifier = "valid"

\* A submit_transaction that checks the signature of the mining reward too
submit_transaction_verifying_reward(sender_public_key, recipient_public_key, amount, verifier) ==
    LET call == [op |-> "submit_transaction", sender_public_key |-> sender_public_key,
                 verifier |-> verifier]
        tx == transfer_tx(sender_public_key, recipient_public_key, amount, now)
    IN IF ~verify_transaction_signature(verifier)
       THEN Returns(call @@ [ret |-> PyBool(FALSE)])
       ELSE /\ Emit(tx)
            /\ last' = call @@ [ret |-> PyInt(Len(chain) + 1)]
            /\ UNCHANGED <<chain, pets, now, pc, loc>>

submit_transaction(sender_public_key, recipient_public_key, amount, verifier) ==
    LET call == [op |-> "submit_transaction", sender_public_key |-> sender_public_key,
                 verifier |-> verifier]
        tx == transfer_tx(sender_public_key, recipient_public_key, amount, now)
    IN IF sender_public_key # MINING_SENDER /\ ~verify_transaction_signature(verifier)
       THEN Returns(call @@ [ret |-> PyBool(FALSE)])
       ELSE /\ Emit(tx)
            /\ last' = call @@ [ret |-> PyInt(Len(chain) + 1)]
            /\ UNCHANGED <<chain, pets, now, pc, loc>>

\* A create_block that starts the chain over with the new block
create_block_restarting_chain(nonce, previous_hash) ==
    LET block == new_block(chain, unconfirmed_transactions, nonce, previous_hash, now)
    IN /\ Steps < MaxSteps
       /\ unconfirmed_transactions' = <<>>
       /\ chain' = <<block>>
       /\ last' = [op |-> "create_block", nonce |-> nonce,
                   previous_hash |-> previous_hash, ret |-> block]
       /\ UNCHANGED <<pets, now, emitted, pc, loc>>

\* A create_block that puts the new block in the place of the last one
create_block_over_last(nonce, previous_hash) ==
    LET block == new_block(chain, unconfirmed_transactions, nonce, previous_hash, now)
    IN /\ Steps < MaxSteps
       /\ unconfirmed_transactions' = <<>>
       /\ chain' = [chain EXCEPT ![Len(chain)] = block]
       /\ emitted' = Append(emitted, [type |-> "BLOCK"])
       /\ last' = [op |-> "create_block", nonce |-> nonce,
                   previous_hash |-> previous_hash, ret |-> block]
       /\ UNCHANGED <<pets, now, pc, loc>>

\* A create_block that leaves the pool as it was
create_block_keeping_pool(nonce, previous_hash) ==
    LET block == new_block(chain, unconfirmed_transactions, nonce, previous_hash, now)
    IN /\ Steps < MaxSteps
       /\ chain' = Append(chain, block)
       /\ last' = [op |-> "create_block", nonce |-> nonce,
                   previous_hash |-> previous_hash, ret |-> block]
       /\ UNCHANGED <<unconfirmed_transactions, pets, now, emitted, pc, loc>>

\* A create_block that links every block to the first block of the chain
create_block_linked_to_first(nonce, previous_hash) ==
    LET block == new_block(chain, unconfirmed_transactions, nonce, hash(chain[1]), now)
    IN /\ Steps < MaxSteps
       /\ unconfirmed_transactions' = <<>>
       /\ chain' = Append(chain, block)
       /\ last' = [op |-> "create_block", nonce |-> nonce,
                   previous_hash |-> previous_hash, ret |-> block]
       /\ UNCHANGED <<pets, now, emitted, pc, loc>>

\* A create_block that numbers the new block len(chain), the number of the
\* block that is last before the call
create_block_reusing_number(nonce, previous_hash) ==
    LET block == [new_block(chain, unconfirmed_transactions, nonce, previous_hash, now)
                      EXCEPT !.block_number = Len(chain)]
    IN /\ Steps < MaxSteps
       /\ unconfirmed_transactions' = <<>>
       /\ chain' = Append(chain, block)
       /\ last' = [op |-> "create_block", nonce |-> nonce,
                   previous_hash |-> previous_hash, ret |-> block]
       /\ UNCHANGED <<pets, now, emitted, pc, loc>>

\* Blockchain.create_block called directly, as the tests do
create_block(nonce, previous_hash) ==
    LET block == new_block(chain, unconfirmed_transactions, nonce, previous_hash, now)
    IN /\ Steps < MaxSteps
       /\ unconfirmed_transactions' = <<>>
       /\ chain' = Append(chain, block)
       /\ last' = [op |-> "create_block", nonce |-> nonce,
                   previous_hash |-> previous_hash, ret |-> block]
       /\ UNCHANGED <<pets, now, emitted, pc, loc>>

\* The /mine route of pet_blockchain.py
mine_block ==
    LET nonce == proof_of_work(chain, unconfirmed_transactions)
        reward == transfer_tx(MINING_SENDER, node_id, MINING_REWARD, now)
        pool == Append(unconfirmed_transactions, reward)
        previous_hash == hash(Last(chain))
        block == new_block(chain, pool, nonce, previous_hash, now)
    IN /\ Steps + 1 < MaxSteps
       /\ emitted' = Append(emitted, reward)
       /\ unconfirmed_transactions' = <<>>
       /\ chain' = Append(chain, block)
       /\ last' = [op |-> "mine_block", route |-> "/mine",
                   pow_pool |-> unconfirmed_transactions, ret |-> block]
       /\ UNCHANGED <<pets, now, pc, loc>>

\* A mining request that links its block to the first block of the chain
api_mine_block_linked_to_first ==
    LET previous_hash == hash(chain[1])
        nonce == proof_of_work(chain, unconfirmed_transactions)
        block == new_block(chain, unconfirmed_transactions, nonce, previous_hash, now)
    IN /\ Steps < MaxSteps
       /\ unconfirmed_transactions' = <<>>
       /\ chain' = Append(chain, block)
       /\ last' = [op |-> "mine_block", route |-> "/api/mine",
                   pow_pool |-> unconfirmed_transactions, ret |-> block]
       /\ UNCHANGED <<pets, now, emitted, pc, loc>>

\* A mining request that appends an empty block and leaves the pool waiting
api_mine_block_empty ==
    LET previous_hash == hash(Last(chain))
        nonce == proof_of_work(chain, unconfirmed_transactions)
        block == new_block(chain, <<>>, nonce, previous_hash, now)
    IN /\ Steps < MaxSteps
       /\ chain' = Append(chain, block)
       /\ last' = [op |-> "mine_block", route |-> "/api/mine",
                   pow_pool |-> unconfirmed_transactions, ret |-> block]
       /\ UNCHANGED <<unconfirmed_transactions, pets, now, emitted, pc, loc>>

\* A mining request whose block takes the pool newest transaction first
api_mine_block_newest_first ==
    LET previous_hash == hash(Last(chain))
        nonce == proof_of_work(chain, unconfirmed_transactions)
        pool == [i \in 1..Len(unconfirmed_transactions) |->
                    unconfirmed_transactions[Len(unconfirmed_transactions) + 1 - i]]
        block == new_block(chain, pool, nonce, previous_hash, now)
    IN /\ Steps < MaxSteps
       /\ unconfirmed_transactions' = <<>>
       /\ chain' = Append(chain, block)
       /\ last' = [op |-> "mine_block", route |-> "/api/mine",
                   pow_pool |-> unconfirmed_transactions, ret |-> block]
       /\ UNCHANGED <<pets, now, emitted, pc, loc>>

\* The /api/mine route of blockchain_client.py
api_mine_block ==
    LET previous_hash == hash(Last(chain))
        nonce == proof_of_work(chain, unconfirmed_transactions)
        block == new_block(chain, unconfirmed_transactions, nonce, previous_hash, now)
    IN /\ Steps < MaxSteps
       /\ unconfirmed_transactions' = <<>>
       /\ chain' = Append(chain, block)
       /\ last' = [op |-> "mine_block", route |-> "/api/mine",
                   pow_pool |-> unconfirmed_transactions, ret |-> block]
       /\ UNCHANGED <<pets, now, emitted, pc, loc>>

\* Blockchain.proof_of_work called directly, as the tests do
call_proof_of_work ==
    /\ last' = [op |-> "proof_of_work",
                ret |-> PyInt(proof_of_work(chain, unconfirmed_transactions))]
    /\ UNCHANGED <<chain, unconfirmed_transactions, pets, now, emitted, pc, loc>>

\* Blockchain.get_pet_blockchain_history called
call_get_pet_blockchain_history(pet_id) ==
    /\ last' = [op |-> "get_pet_blockchain_history", pet_id |-> pet_id,
                ret |-> PyList(get_pet_blockchain_history(
                                   chain, unconfirmed_transactions, pet_id))]
    /\ UNCHANGED <<chain, unconfirmed_transactions, pets, now, emitted, pc, loc>>

\* A get_pet that counts the lookup as a view of the profile
call_get_pet_counting_view(pet_id) ==
    /\ pets' = increment_view_count(pets, pet_id)
    /\ last' = [op |-> "get_pet", pet_id |-> pet_id,
                ret |-> IF HasPet(pets, pet_id) THEN get_pet(pets, pet_id) ELSE None]
    /\ UNCHANGED <<chain, unconfirmed_transactions, now, emitted, pc, loc>>

\* PetRegistry.get_pet called: the stored profile, or None
call_get_pet(pet_id) ==
    /\ last' = [op |-> "get_pet", pet_id |-> pet_id,
                ret |-> IF HasPet(pets, pet_id) THEN get_pet(pets, pet_id) ELSE None]
    /\ UNCHANGED <<chain, unconfirmed_transactions, pets, now, emitted, pc, loc>>

\* PetRegistry.search_pets called
call_search_pets(query, lost_only) ==
    /\ last' = [op |-> "search_pets", query |-> query, lost_only |-> lost_only,
                ret |-> search_pets(pets, query, lost_only)]
    /\ UNCHANGED <<chain, unconfirmed_transactions, pets, now, emitted, pc, loc>>

-----------------------------------------------------------------------------
(* Routes that hand registry content to the caller *)

\* pet_safe = pet.copy(); pet_safe.pop("owner_public_key", None)
pet_safe(pet) == [k \in DOMAIN pet \ {"owner_public_key"} |-> pet[k]]

\* The pet_data api_register_pet of pet_blockchain.py builds from the request
request_pet_data(data) ==
    [ name |-> data.name,
      breed |-> Get(data, "breed", "Mixed"),
      species |-> Get(data, "species", "dog"),
      birth_date |-> Get(data, "birth_date", "Unknown"),
      color |-> Get(data, "color", "Unknown"),
      weight |-> Get(data, "weight", "Unknown"),
      microchip_id |-> Get(data, "microchip_id", "NO_CHIP"),
      photo |-> Get(data, "photo", ""),
      owner_name |-> data.owner_name,
      owner_phone |-> data.owner_phone,
      owner_email |-> Get(data, "owner_email", "") ]

\* POST /api/pet/register of pet_blockchain.py
api_register_pet(data) ==
    LET call == [op |-> "api_register_pet"]
    IN IF ~({"name", "owner_public_key", "owner_name", "owner_phone"}
                \subseteq DOMAIN data)
       THEN Returns(call @@ [status |-> 400,
                             ret |-> [error |-> "Missing required fields"]])
       ELSE LET pet_data == request_pet_data(data)
                owner_public_key == data.owner_public_key
                pet_id == generate_pet_id(pet_data.microchip_id, owner_public_key, now)
                after == create_pet_profile(pets, pet_id,
                             DictSet(pet_data, "owner_public_key", owner_public_key),
                             now)
            IN /\ pets' = after
               /\ Emit(registration_tx(pet_id, pet_data, owner_public_key, now))
               /\ last' = call @@ [status |-> 201,
                                   ret |-> [success |-> TRUE, pet_id |-> pet_id,
                                            pet |-> get_pet(after, pet_id)]]
               /\ UNCHANGED <<chain, now, pc, loc>>

\* GET /api/pet/<pet_id> of pet_blockchain.py
api_get_pet(pet_id, viewer_key) ==
    LET call == [op |-> "api_get_pet", pet_id |-> pet_id]
    IN IF ~HasPet(pets, pet_id)
       THEN Returns(call @@ [status |-> 404, ret |-> [error |-> "Pet not found"]])
       ELSE LET after == increment_view_count(pets, pet_id)
                tx == profile_view_tx(pet_id, viewer_key,
                                      get_pet(after, pet_id).view_count, now)
                history == get_pet_blockchain_history(
                               chain, Append(unconfirmed_transactions, tx), pet_id)
            IN /\ pets' = after
               /\ Emit(tx)
               /\ last' = call @@ [status |-> 200,
                                   ret |-> [success |-> TRUE,
                                            pet |-> pet_safe(get_pet(after, pet_id)),
                                            blockchain_history |-> history]]
               /\ UNCHANGED <<chain, now, pc, loc>>

\* The response of a search route for what search_pets did
search_response(op, results) ==
    IF "raises" \in DOMAIN results
    THEN [op |-> op, status |-> 500, ret |-> [error |-> results.raises]]
    ELSE [op |-> op, status |-> 200,
          ret |-> [success |-> TRUE, count |-> Len(results.list),
                   pets |-> results.list]]

\* GET /api/pet/search of pet_blockchain.py
api_search(q, lost_only) ==
    Returns(search_response("api_search",
                search_pets(pets, IF q = "" THEN None ELSE q, lost_only)))

\* POST /api/pet/search of blockchain_client.py
api_search_pet(query) ==
    Returns(search_response("api_search_pet", search_pets(pets, lower(query), FALSE)))

\* GET /api/pet/<pet_id>/profile of blockchain_client.py
api_pet_profile(pet_id) ==
    LET call == [op |-> "api_pet_profile", pet_id |-> pet_id]
    IN IF ~HasPet(pets, pet_id)
       THEN Returns(call @@ [status |-> 404, ret |-> [error |-> "Pet not found"]])
       ELSE Returns(call @@ [status |-> 200, ret |-> get_pet(pets, pet_id)])

-----------------------------------------------------------------------------

\* Blockchain.hash called on a dict built with the given insertion order
call_hash(keys, block) ==
    /\ last' = [op |-> "hash", keys |-> keys, block |-> block,
                ret |-> PyStr(hash_of(keys, block))]
    /\ UNCHANGED <<chain, unconfirmed_transactions, pets, now, emitted, pc, loc>>

\* Blockchain.get_registry_stats called
call_get_registry_stats ==
    /\ last' = [op |-> "get_registry_stats", ret |-> get_registry_stats(pets)]
    /\ UNCHANGED <<chain, unconfirmed_transactions, pets, now, emitted, pc, loc>>

-----------------------------------------------------------------------------
(* Single-threaded runs of the service *)

Register == \E d \in PetDatas, k \in OwnerKeys : register_pet(d, k)
AddVetRecord ==
    \E p \in PetIds, r \in VetInputs, k \in OwnerKeys : add_vet_record_to_pet(p, r, k)
ViewProfile == \E p \in PetIds, k \in ViewerKeys : view_pet_profile(p, k)
ReportLost ==
    \E p \in PetIds, k \in OwnerKeys, l \in Locations, d \in Descriptions :
        report_pet_lost(p, k, l, d)
ReportFound ==
    \E p \in PetIds, k \in FinderKeys, c \in Contacts : report_pet_found(p, k, c)
SubmitTransaction ==
    \E s \in Senders, v \in VerifierOutcomes : submit_transaction(s, "K2", 1, v)
Mine == mine_block
ApiMine == api_mine_block

Next ==
    \/ Tick
    \/ Register
    \/ AddVetRecord
    \/ ViewProfile
    \/ ReportLost
    \/ ReportFound
    \/ SubmitTransaction
    \/ Mine
    \/ ApiMine

Spec == Init /\ [][Next]_vars

-----------------------------------------------------------------------------
(* Single-threaded runs of the service with its read-only queries *)

GetHistory == \E p \in PetIds : call_get_pet_blockchain_history(p)
GetStats == call_get_registry_stats

NextQueries == Next \/ GetHistory \/ GetStats

SpecQueries == Init /\ [][NextQueries]_vars

-----------------------------------------------------------------------------
(* Single-threaded runs of the registry operations, with registrations     *)
(* from sparse pet data as well                                            *)

RegisterSparse == \E d \in SparsePetDatas, k \in OwnerKeys : register_pet(d, k)

NextRegistry ==
    \/ Tick
    \/ Register
    \/ RegisterSparse
    \/ AddVetRecord
    \/ ViewProfile
    \/ ReportLost
    \/ ReportFound

SpecRegistry == Init /\ [][NextRegistry]_vars

-----------------------------------------------------------------------------
(* Single-threaded runs in which pets are reported lost again, from other  *)
(* places                                                                  *)

ReportLostAgain ==
    \E p \in PetIds, k \in OwnerKeys, l \in LaterLocations, d \in LaterDescriptions :
        report_pet_lost(p, k, l, d)

NextLost ==
    \/ Tick
    \/ Register
    \/ ReportLostAgain
    \/ ReportFound

SpecLost == Init /\ [][NextLost]_vars

-----------------------------------------------------------------------------
(* Single-threaded runs of registrations, lost reports and searches        *)

RegisterFull == \E d \in FullPetDatas, k \in OwnerKeys : register_pet(d, k)
SearchPets ==
    \E q \in Queries \cup {Take(pets[i].pet_id, 2) : i \in DOMAIN pets},
       l \in BOOLEAN : call_search_pets(q, l)

NextSearch ==
    \/ Tick
    \/ RegisterFull
    \/ RegisterSparse
    \/ ReportLost
    \/ SearchPets

SpecSearch == Init /\ [][NextSearch]_vars

-----------------------------------------------------------------------------
(* Single-threaded runs of the routes that return registry content         *)

ApiRegisterPet == \E d \in RegistrationRequests : api_register_pet(d)
ApiGetPet == \E p \in PetIds, k \in ViewerKeys : api_get_pet(p, k)
ApiSearch == \E q \in RouteQueries, l \in BOOLEAN : api_search(q, l)
ApiSearchPet == \E q \in RouteQueries : api_search_pet(q)
ApiPetProfile == \E p \in PetIds : api_pet_profile(p)

NextReaders ==
    \/ Tick
    \/ Register
    \/ ReportLost
    \/ ApiRegisterPet
    \/ ApiGetPet
    \/ ApiSearch
    \/ ApiSearchPet
    \/ ApiPetProfile

SpecReaders == Init /\ [][NextReaders]_vars

-----------------------------------------------------------------------------
(* Single-threaded runs in which mining requests keep being made: whenever *)
(* a mining request can be served, one eventually is.  The other requests  *)
(* stop while the budget still has room for the mining request that takes  *)
(* their transactions.                                                     *)

Room == Steps + 1 < MaxSteps

LiveTick == (unconfirmed_transactions = <<>> \/ Room) /\ Tick
LiveRegister == Room /\ Register
LiveViewProfile == Room /\ ViewProfile
LiveSubmitTransaction == Room /\ SubmitTransaction

NextLive ==
    \/ LiveTick
    \/ LiveRegister
    \/ LiveViewProfile
    \/ LiveSubmitTransaction
    \/ Mine
    \/ ApiMine

\* A mining request can be served: the guard of Mine \/ ApiMine
MineEnabled == Steps < MaxSteps

\* Weak fairness of the mining requests, WF_vars(Mine \/ ApiMine), written
\* out with the guard of the two actions for ENABLED <<Mine \/ ApiMine>>_vars
MiningKeepsBeingRequested ==
    []<>(~MineEnabled) \/ []<><<Mine \/ ApiMine>>_vars

SpecLive == Init /\ [][NextLive]_vars /\ MiningKeepsBeingRequested

-----------------------------------------------------------------------------
(* Single-threaded runs of the service in which callers also leave keys out *)

ViewProfileAnonymous == \E p \in PetIds, k \in AbsentKeys : view_pet_profile(p, k)
ReportFoundAnonymous ==
    \E p \in PetIds, k \in AbsentKeys, c \in Contacts : report_pet_found(p, k, c)
SubmitToNobody ==
    \E s \in Senders, r \in AbsentKeys : submit_transaction(s, r, 1, "valid")

NextKeys ==
    \/ Register
    \/ AddVetRecord
    \/ ViewProfile
    \/ ViewProfileAnonymous
    \/ ReportLost
    \/ ReportFound
    \/ ReportFoundAnonymous
    \/ SubmitTransaction
    \/ SubmitToNobody
    \/ Mine
    \/ ApiMine

SpecKeys == Init /\ [][NextKeys]_vars

-----------------------------------------------------------------------------
(* Single-threaded runs of the ledger with the Blockchain's methods also     *)
(* called directly                                                        *)

CreateBlock ==
    \E n \in DirectNonces, h \in {ForeignHash, hash(Last(chain))} : create_block(n, h)
ProofOfWork == call_proof_of_work

\* The operations that append to the pool or the chain, and the direct calls
NextApi ==
    \/ Tick
    \/ Register
    \/ SubmitTransaction
    \/ Mine
    \/ ApiMine
    \/ CreateBlock
    \/ ProofOfWork

SpecApi == Init /\ [][NextApi]_vars

-----------------------------------------------------------------------------
(* Single-threaded runs of every operation of the ledger and the registry, *)
(* the queries included, within one reading of the clock                   *)

GetPet == \E p \in PetIds : call_get_pet(p)
SearchByName == \E q \in {None, "REX"}, l \in BOOLEAN : call_search_pets(q, l)

NextFrame ==
    \/ Register
    \/ AddVetRecord
    \/ ViewProfile
    \/ ReportLost
    \/ ReportFound
    \/ SubmitTransaction
    \/ Mine
    \/ CreateBlock
    \/ ProofOfWork
    \/ GetHistory
    \/ GetStats
    \/ SearchByName
    \/ GetPet

SpecFrame == Init /\ [][NextFrame]_vars

-----------------------------------------------------------------------------
(* Blockchain.hash called on the blocks of chains built by direct calls,   *)
(* in any state of the pool, the chain and the registry                    *)

Hash ==
    \E o \in KeyOrders, b \in {chain[i] : i \in DOMAIN chain} \cup {DummyBlock} :
        call_hash(o, b)

NextHash ==
    \/ Tick
    \/ Register
    \/ SubmitTransaction
    \/ CreateBlock
    \/ Hash

SpecHash == Init /\ [][NextHash]_vars

-----------------------------------------------------------------------------
(* Concurrent requests: Flask serves each request on its own thread, the    *)
(* Blockchain object is shared and nothing is locked.  A mining request is  *)
(* split at the points where another thread can run; the other operations  *)
(* run in one step.                                                        *)

SetPc(t, p) == pc' = [pc EXCEPT ![t] = p]
SetLoc(t, l) == loc' = [loc EXCEPT ![t] = l]
Reserved(t) == IF pc[t] = "idle" THEN 0 ELSE loc[t].reserved

\* A mining request arrives
start_mine(t, route) ==
    /\ pc[t] = "idle"
    /\ Steps + Reserved(1) + Reserved(2) + (IF route = "/mine" THEN 2 ELSE 1) <= MaxSteps
    /\ SetPc(t, IF route = "/mine" THEN "pow_begin" ELSE "read_last")
    /\ SetLoc(t, [route |-> route,
                  reserved |-> IF route = "/mine" THEN 2 ELSE 1])
    /\ UNCHANGED <<chain, unconfirmed_transactions, pets, now, last, emitted>>

\* last_block = self.chain[-1]; previous_hash = self.hash(last_block)
read_last(t) ==
    /\ pc[t] = "read_last"
    /\ SetLoc(t, loc[t] @@ [previous_hash |-> hash(Last(chain))])
    /\ SetPc(t, IF loc[t].route = "/mine" THEN "cb_build" ELSE "pow_begin")
    /\ UNCHANGED <<chain, unconfirmed_transactions, pets, now, last, emitted>>

\* proof_of_work up to the loop: last_hash = self.hash(self.chain[-1]); nonce = 0
pow_begin(t) ==
    /\ pc[t] = "pow_begin"
    /\ SetLoc(t, loc[t] @@ [last_hash |-> hash(Last(chain)), nonce |-> 0,
                            pow_pool |-> unconfirmed_transactions])
    /\ SetPc(t, "pow_loop")
    /\ UNCHANGED <<chain, unconfirmed_transactions, pets, now, last, emitted>>

\* PowStride iterations of the loop, each reading the pool as it is now
pow_step(t) ==
    /\ pc[t] = "pow_loop"
    /\ LET gs == guess_state(unconfirmed_transactions, loc[t].last_hash)
           found == pow_scan(gs, loc[t].nonce)
       IN IF found >= 0
          THEN /\ SetLoc(t, [loc[t] EXCEPT !.nonce = found])
               /\ SetPc(t, IF loc[t].route = "/mine" THEN "reward" ELSE "cb_build")
          ELSE /\ SetLoc(t, [loc[t] EXCEPT !.nonce = @ + PowStride])
               /\ SetPc(t, "pow_loop")
    /\ UNCHANGED <<chain, unconfirmed_transactions, pets, now, last, emitted>>

\* blockchain.submit_transaction(MINING_SENDER, node_id, "", MINING_REWARD)
reward(t) ==
    /\ pc[t] = "reward"
    /\ LET tx == transfer_tx(MINING_SENDER, node_id, MINING_REWARD, now)
       IN /\ unconfirmed_transactions' = Append(unconfirmed_transactions, tx)
          /\ emitted' = Append(emitted, tx)
    /\ SetLoc(t, [loc[t] EXCEPT !.reserved = 1])
    /\ SetPc(t, "read_last")
    /\ UNCHANGED <<chain, pets, now, last>>

\* create_block: the block dict is built from the chain and the pool
cb_build(t) ==
    /\ pc[t] = "cb_build"
    /\ SetLoc(t, loc[t] @@ [block |-> new_block(chain, unconfirmed_transactions,
                                               loc[t].nonce, loc[t].previous_hash, now)])
    /\ SetPc(t, "cb_reset")
    /\ UNCHANGED <<chain, unconfirmed_transactions, pets, now, last, emitted>>

\* create_block: self.unconfirmed_transactions = []
cb_reset(t) ==
    /\ pc[t] = "cb_reset"
    /\ unconfirmed_transactions' = <<>>
    /\ SetPc(t, "cb_append")
    /\ UNCHANGED <<chain, pets, now, last, emitted, loc>>

\* create_block: self.chain.append(block); the request returns
cb_append(t) ==
    /\ pc[t] = "cb_append"
    /\ chain' = Append(chain, loc[t].block)
    /\ last' = [op |-> "mine_block", route |-> loc[t].route,
                pow_pool |-> loc[t].pow_pool, ret |-> loc[t].block]
    /\ SetPc(t, "idle")
    /\ SetLoc(t, <<>>)
    /\ UNCHANGED <<unconfirmed_transactions, pets, now, emitted>>

StartMine == \E t \in Threads, r \in Routes : start_mine(t, r)
ReadLast == \E t \in Threads : read_last(t)
PowBegin == \E t \in Threads : pow_begin(t)
PowStep == \E t \in Threads : pow_step(t)
Reward == \E t \in Threads : reward(t)
CbBuild == \E t \in Threads : cb_build(t)
CbReset == \E t \in Threads : cb_reset(t)
CbAppend == \E t \in Threads : cb_append(t)

\* No mining request holds back budget the other operations need
Unreserved == Steps + Reserved(1) + Reserved(2) < MaxSteps

\* Requests served in one step while mining requests are in progress
ServeTick == Unreserved /\ Tick
ServeRegister == Unreserved /\ Register
ServeViewProfile == Unreserved /\ ViewProfile
ServeSubmitTransaction == Unreserved /\ SubmitTransaction

NextThreads ==
    \/ StartMine
    \/ ReadLast
    \/ PowBegin
    \/ PowStep
    \/ Reward
    \/ CbBuild
    \/ CbReset
    \/ CbAppend
    \/ ServeTick
    \/ ServeRegister
    \/ ServeViewProfile
    \/ ServeSubmitTransaction

SpecThreads == Init /\ [][NextThreads]_vars

-----------------------------------------------------------------------------
(* Concurrent requests on the registry: view_pet_profile, report_pet_lost   *)
(* and report_pet_found split at the points where another thread can run   *)
(* between their reads and writes of the shared profile.                   *)

\* view_pet_profile: the membership test
view_begin(t, pet_id, viewer_public_key) ==
    LET call == [op |-> "view_pet_profile", pet_id |-> pet_id,
                 viewer_public_key |-> viewer_public_key]
    IN /\ pc[t] = "idle"
       /\ IF ~HasPet(pets, pet_id)
          THEN Returns(call @@ [ret |-> PyBool(FALSE)])
          ELSE /\ Unreserved
               /\ SetPc(t, "view_load")
               /\ SetLoc(t, call @@ [reserved |-> 1])
               /\ UNCHANGED <<chain, unconfirmed_transactions, pets, now, last, emitted>>

\* increment_view_count: the read of view_count in "+= 1"
view_load(t) ==
    /\ pc[t] = "view_load"
    /\ SetLoc(t, loc[t] @@ [loaded |-> get_pet(pets, loc[t].pet_id).view_count])
    /\ SetPc(t, "view_store")
    /\ UNCHANGED <<chain, unconfirmed_transactions, pets, now, last, emitted>>

\* increment_view_count: the write of view_count in "+= 1"
view_store(t) ==
    /\ pc[t] = "view_store"
    /\ pets' = [pets EXCEPT ![PetIndex(pets, loc[t].pet_id)].view_count =
                   loc[t].loaded + 1]
    /\ SetPc(t, "view_reload")
    /\ UNCHANGED <<chain, unconfirmed_transactions, now, last, emitted, loc>>

\* increment_view_count: return self.pets[pet_id]["view_count"]
view_reload(t) ==
    /\ pc[t] = "view_reload"
    /\ SetLoc(t, loc[t] @@ [count |-> get_pet(pets, loc[t].pet_id).view_count])
    /\ SetPc(t, "view_emit")
    /\ UNCHANGED <<chain, unconfirmed_transactions, pets, now, last, emitted>>

\* view_pet_profile: the event is appended and the call returns True
view_emit(t) ==
    /\ pc[t] = "view_emit"
    /\ Emit(profile_view_tx(loc[t].pet_id, loc[t].viewer_public_key,
                            loc[t].count, now))
    /\ last' = [op |-> "view_pet_profile", pet_id |-> loc[t].pet_id,
                viewer_public_key |-> loc[t].viewer_public_key,
                ret |-> PyBool(TRUE)]
    /\ SetPc(t, "idle")
    /\ SetLoc(t, <<>>)
    /\ UNCHANGED <<chain, pets, now>>

\* report_pet_lost: get_pet and the owner check
lost_begin(t, pet_id, owner_public_key, location, description) ==
    LET call == [op |-> "report_pet_lost", pet_id |-> pet_id,
                 owner_public_key |-> owner_public_key]
    IN /\ pc[t] = "idle"
       /\ IF ~HasPet(pets, pet_id)
             \/ get_pet(pets, pet_id).owner_public_key # owner_public_key
          THEN Returns(call @@ [ret |-> PyBool(FALSE)])
          ELSE /\ Unreserved
               /\ SetPc(t, "lost_mark")
               /\ SetLoc(t, call @@ [location |-> location,
                                     description |-> description, reserved |-> 1])
               /\ UNCHANGED <<chain, unconfirmed_transactions, pets, now, last, emitted>>

\* report_pet_lost: self.pet_registry.mark_pet_lost(...)
lost_mark(t) ==
    /\ pc[t] = "lost_mark"
    /\ pets' = mark_pet_lost(pets, loc[t].pet_id, loc[t].location,
                             loc[t].description, now)
    /\ SetPc(t, "lost_emit")
    /\ UNCHANGED <<chain, unconfirmed_transactions, now, last, emitted, loc>>

\* report_pet_lost: the event is appended and the call returns True
lost_emit(t) ==
    /\ pc[t] = "lost_emit"
    /\ Emit(pet_lost_tx(loc[t].pet_id, loc[t].location, loc[t].description,
                        loc[t].owner_public_key, now))
    /\ last' = [op |-> "report_pet_lost", pet_id |-> loc[t].pet_id,
                owner_public_key |-> loc[t].owner_public_key,
                ret |-> PyBool(TRUE)]
    /\ SetPc(t, "idle")
    /\ SetLoc(t, <<>>)
    /\ UNCHANGED <<chain, pets, now>>

\* report_pet_found: get_pet and the status check
found_begin(t, pet_id, finder_public_key, finder_contact) ==
    LET call == [op |-> "report_pet_found", pet_id |-> pet_id,
                 finder_public_key |-> finder_public_key,
                 finder_contact |-> finder_contact]
    IN /\ pc[t] = "idle"
       /\ IF ~HasPet(pets, pet_id) \/ get_pet(pets, pet_id).status # "lost"
          THEN Returns(call @@ [ret |-> PyBool(FALSE)])
          ELSE /\ Unreserved
               /\ SetPc(t, "found_mark")
               /\ SetLoc(t, call @@ [reserved |-> 1])
               /\ UNCHANGED <<chain, unconfirmed_transactions, pets, now, last, emitted>>

\* report_pet_found: self.pet_registry.mark_pet_found(...)
found_mark(t) ==
    /\ pc[t] = "found_mark"
    /\ pets' = mark_pet_found(pets, loc[t].pet_id, loc[t].finder_contact, now)
    /\ SetPc(t, "found_emit")
    /\ UNCHANGED <<chain, unconfirmed_transactions, now, last, emitted, loc>>

\* report_pet_found: the event is appended and the call returns True
found_emit(t) ==
    /\ pc[t] = "found_emit"
    /\ Emit(pet_found_tx(loc[t].pet_id, loc[t].finder_public_key,
                         loc[t].finder_contact, now))
    /\ last' = [op |-> "report_pet_found", pet_id |-> loc[t].pet_id,
                finder_public_key |-> loc[t].finder_public_key,
                finder_contact |-> loc[t].finder_contact,
                ret |-> PyBool(TRUE)]
    /\ SetPc(t, "idle")
    /\ SetLoc(t, <<>>)
    /\ UNCHANGED <<chain, pets, now>>

ViewBegin == \E t \in Threads, p \in PetIds, k \in ViewerKeys : view_begin(t, p, k)
ViewLoad == \E t \in Threads : view_load(t)
ViewStore == \E t \in Threads : view_store(t)
ViewReload == \E t \in Threads : view_reload(t)
ViewEmit == \E t \in Threads : view_emit(t)
LostBegin ==
    \E t \in Threads, p \in PetIds, k \in OwnerKeys, l \in Locations,
       d \in Descriptions : lost_begin(t, p, k, l, d)
LostMark == \E t \in Threads : lost_mark(t)
LostEmit == \E t \in Threads : lost_emit(t)
FoundBegin ==
    \E t \in Threads, p \in PetIds, k \in FinderKeys, c \in Contacts :
        found_begin(t, p, k, c)
FoundMark == \E t \in Threads : found_mark(t)
FoundEmit == \E t \in Threads : found_emit(t)

NextPetThreads ==
    \/ ServeTick
    \/ ServeRegister
    \/ ViewBegin
    \/ ViewLoad
    \/ ViewStore
    \/ ViewReload
    \/ ViewEmit
    \/ LostBegin
    \/ LostMark
    \/ LostEmit
    \/ FoundBegin
    \/ FoundMark
    \/ FoundEmit

SpecPetThreads == Init /\ [][NextPetThreads]_vars

-----------------------------------------------------------------------------
(* Vocabulary of the properties *)

RECURSIVE BlocksTxs(_, _)
\* The transactions of blocks i.. of a chain, in chain order
BlocksTxs(ch, i) ==
    IF i > Len(ch) THEN <<>> ELSE ch[i].transactions \o BlocksTxs(ch, i + 1)

\* Every transaction of the chain, then the pool
Ledger == BlocksTxs(chain, 1) \o unconfirmed_transactions

IsEvent(tx, type, pet_id) ==
    "type" \in DOMAIN tx /\ tx.type = type /\ tx.pet_id = pet_id

Count(seq, x) == Cardinality({i \in DOMAIN seq : seq[i] = x})

\* The proof-of-work predicate over a block's own content
PowValid(block) ==
    valid_guess(guess_state(block.transactions, block.previous_hash), block.nonce)

OwnerMismatch(ps, call) ==
    /\ HasPet(ps, call.pet_id)
    /\ get_pet(ps, call.pet_id).owner_public_key # call.owner_public_key

Idle == \A t \in Threads : pc[t] = "idle"

\* The events of one type appended for a pet so far, in order of appending
EventsOf(type, pet_id) == SelectSeq(emitted, LAMBDA tx : IsEvent(tx, type, pet_id))

\* The positions in the ledger of the transactions that carry a pet_id
PositionsOf(pet_id) ==
    SelectSeq([p \in 1..Len(Ledger) |-> p],
              LAMBDA p : "pet_id" \in DOMAIN Ledger[p] /\ Ledger[p].pet_id = pet_id)

\* The number of transactions in the first b blocks
MinedUpTo(b) == Len(BlocksTxs(Take(chain, b), 1))

\* The block that holds the transaction at a mined ledger position
BlockAt(p) ==
    chain[CHOOSE b \in DOMAIN chain : MinedUpTo(b - 1) < p /\ p <= MinedUpTo(b)]

\* Every key a caller or a route passes to the Blockchain's methods
RawKeys ==
    OwnerKeys \cup ViewerKeys \cup FinderKeys \cup Senders \cup {"K2", node_id}

\* The fields of a transaction that are derived from a key
KeyFields ==
    {"owner_public_key_hash", "viewer_public_key_hash", "finder_public_key_hash",
     "sender_public_key_hash", "recipient_public_key_hash"}

\* q is a case-insensitive substring of a field's value; an absent value
\* contains nothing
FieldHas(v, q) == v # None /\ str_contains(lower(q), lower(v))

\* The profiles in the response the latest route call returned
ReturnedProfiles ==
    IF "status" \notin DOMAIN last \/ last.status \notin {200, 201} THEN <<>>
    ELSE IF last.op \in {"api_search", "api_search_pet"} THEN last.ret.pets
    ELSE IF last.op \in {"api_register_pet", "api_get_pet"} THEN <<last.ret.pet>>
    ELSE IF last.op = "api_pet_profile" THEN <<last.ret>>
    ELSE <<>>

\* The owner keys the ownership checks compare with
StoredOwnerKeys == {pets[i].owner_public_key : i \in DOMAIN pets}

\* The fields of a profile that never hold a string
NonStringFields ==
    {"registered_at", "vet_records", "view_count", "lost_since", "found_at"}

\* Every insertion order of the keys of a block dict
AllKeyOrders ==
    {[i \in DOMAIN BlockKeys |-> BlockKeys[p[i]]] : p \in Permutations(DOMAIN BlockKeys)}

\* No two registrations so far were given the same pet_id
NoPetIdCollision ==
    LET regs == SelectSeq(emitted,
                    LAMBDA tx : "type" \in DOMAIN tx /\ tx.type = "PET_REGISTRATION")
    IN \A i, j \in DOMAIN regs : i # j => regs[i].pet_id # regs[j].pet_id

-----------------------------------------------------------------------------
(* Properties *)

\* C1, as stated: in a chain built by any sequence of create_block(nonce,
\* previous_hash) calls, every block after the first stores the hash of the
\* block before it.
C1_LinkedWhateverIsPassed ==
    \A i \in 2..Len(chain) : chain[i].previous_hash = hash(chain[i - 1])

\* C1, amended: every block whose create_block call was passed the hash of
\* the block that was last at the call (every call but those passing a
\* foreign previous_hash) stores the hash of the block before it.
C1_LinkedWhenPassedLastHash ==
    \A i \in 2..Len(chain) :
        chain[i].previous_hash # ForeignHash
            => chain[i].previous_hash = hash(chain[i - 1])

C1_Witness ==
    /\ last.op = "create_block"
    /\ last.previous_hash # ForeignHash
    /\ Len(chain) >= 3
    /\ chain[Len(chain)] = last.ret

\* C2: the nonce of every block a mining request appended satisfies the
\* proof-of-work predicate over that block's own transactions and
\* previous_hash.
C2_MinedNonceValid == \A i \in 2..Len(chain) : PowValid(chain[i])

\* C3: proof_of_work returns the smallest nonce n >= 0 that is valid for the
\* pool and the hash of the last block, a second run on the unchanged pool
\* and chain returns the same n, and the call changes neither pool nor chain.
C3_SmallestNonce ==
    [][(last'.op = "proof_of_work" /\ last' # last)
         => LET n == last'.ret.int
                gs == guess_state(unconfirmed_transactions, hash(Last(chain)))
            IN /\ n >= 0
               /\ valid_guess(gs, n)
               /\ \A m \in 0..(n - 1) : ~valid_guess(gs, m)
               /\ UNCHANGED <<unconfirmed_transactions, chain>>
               /\ proof_of_work(chain', unconfirmed_transactions') = n]_vars

C3_Witness ==
    /\ last.op = "proof_of_work"
    /\ last.ret.int > 0
    /\ unconfirmed_transactions # <<>>
    /\ Len(chain) >= 2

\* C4: add_vet_record_to_pet and report_pet_lost called with a key other
\* than the profile's stored owner key return False and leave the registry,
\* the pool and the chain as they were; no event is emitted.
C4_FailClosed ==
    [][(last'.op \in {"add_vet_record_to_pet", "report_pet_lost"}
          /\ OwnerMismatch(pets, last'))
         => /\ last'.ret = PyBool(FALSE)
            /\ UNCHANGED <<pets, unconfirmed_transactions, chain, emitted>>]_vars

C4_Witness ==
    /\ last.op = "add_vet_record_to_pet"
    /\ OwnerMismatch(pets, last)
    /\ last.ret = PyBool(FALSE)
    /\ get_pet(pets, last.pet_id).vet_records = <<>>

\* C5: a pet starts Active, and its status changes only from Active to Lost
\* by report_pet_lost called with the stored owner key, or from Lost to
\* Active by report_pet_found; no other operation changes a pet's status.
C5_StatusTransitions ==
    [][\A i \in DOMAIN pets' :
         LET p == pets'[i]
         IN IF ~HasPet(pets, p.pet_id) THEN p.status = "active"
            ELSE LET old == get_pet(pets, p.pet_id)
                 IN \/ p.status = old.status
                    \/ /\ old.status = "active"
                       /\ p.status = "lost"
                       /\ last'.op = "report_pet_lost"
                       /\ last'.pet_id = p.pet_id
                       /\ last'.owner_public_key = old.owner_public_key
                    \/ /\ old.status = "lost"
                       /\ p.status = "active"
                       /\ last'.op = "report_pet_found"
                       /\ last'.pet_id = p.pet_id]_vars

\* C6: between operations, every profile in the registry has a
\* PET_REGISTRATION event with its pet_id in a block of the chain or in the
\* pool.
C6_ProfileHasRegistration ==
    \A i \in DOMAIN pets :
        \E j \in DOMAIN Ledger : IsEvent(Ledger[j], "PET_REGISTRATION", pets[i].pet_id)

C6_Witness ==
    /\ Len(pets) >= 1
    /\ \E b \in 2..Len(chain) :
           \E j \in DOMAIN chain[b].transactions :
               IsEvent(chain[b].transactions[j], "PET_REGISTRATION", pets[1].pet_id)

\* C7: a pet's view_count equals the number of PROFILE_VIEW events for it in
\* the chain and the pool, and the k-th of those events, in chain-then-pool
\* order, carries view_count = k.
C7_ViewCountMatchesEvents ==
    \A i \in DOMAIN pets :
        LET views == SelectSeq(Ledger,
                         LAMBDA tx : IsEvent(tx, "PROFILE_VIEW", pets[i].pet_id))
        IN /\ pets[i].view_count = Len(views)
           /\ \A k \in DOMAIN views : views[k].view_count = k

\* C8: any two register_pet calls return distinct pet_ids, and both resolve
\* to a profile: the registry holds one profile per call.
C8_DistinctPetIds ==
    LET regs == SelectSeq(emitted,
                    LAMBDA tx : "type" \in DOMAIN tx /\ tx.type = "PET_REGISTRATION")
    IN /\ \A i, j \in DOMAIN regs : i # j => regs[i].pet_id # regs[j].pet_id
       /\ \A i \in DOMAIN regs : HasPet(pets, regs[i].pet_id)
       /\ Len(pets) = Len(regs)

\* C9: with create_block interleaved with other threads' appends to the
\* pool, once the requests have returned every appended transaction is in
\* exactly one place: one block, or the pool.
C9_NoTxLostOrDuplicated ==
    Idle => \A i \in DOMAIN emitted :
                Count(Ledger, emitted[i]) = Count(emitted, emitted[i])

\* C10: the block a mining request creates holds exactly the transactions
\* that were in the pool when its nonce search started, in that order.
C10_MiningIsolation ==
    last.op = "mine_block" => last.ret.transactions = last.pow_pool

\* C11: with the reads and writes of concurrent calls on one pet interleaved,
\* once the calls have returned view_count equals the number of successful
\* views, the PROFILE_VIEW events carry distinct counts, and the status is
\* the one of the last PET_LOST / PET_FOUND event appended for the pet
\* (stated for runs in which no two registrations share a pet_id).
C11_NoLostUpdate ==
    (Idle /\ NoPetIdCollision) =>
        \A i \in DOMAIN pets :
            LET views == EventsOf("PROFILE_VIEW", pets[i].pet_id)
                toggles == SelectSeq(emitted,
                               LAMBDA tx : \/ IsEvent(tx, "PET_LOST", pets[i].pet_id)
                                           \/ IsEvent(tx, "PET_FOUND", pets[i].pet_id))
            IN /\ pets[i].view_count = Len(views)
               /\ \A a, b \in DOMAIN views :
                      a # b => views[a].view_count # views[b].view_count
               /\ toggles # <<>> =>
                      pets[i].status = IF Last(toggles).type = "PET_LOST"
                                       THEN "lost" ELSE "active"

\* C12: create_block(nonce, previous_hash) returns the one block it appends;
\* the block's transactions are the pool's content before the call in
\* insertion order, its nonce and previous_hash are the arguments, and after
\* the call the pool is empty and the chain is one block longer.
C12_CreateBlockContract ==
    [][(last'.op = "create_block" /\ last' # last)
         => LET block == last'.ret
            IN /\ chain' = Append(chain, block)
               /\ Len(chain') = Len(chain) + 1
               /\ block.transactions = unconfirmed_transactions
               /\ block.nonce = last'.nonce
               /\ block.previous_hash = last'.previous_hash
               /\ unconfirmed_transactions' = <<>>]_vars

C12_Witness ==
    /\ last.op = "create_block"
    /\ Len(last.ret.transactions) >= 2
    /\ last.ret.transactions[1] # last.ret.transactions[2]
    /\ last.ret.previous_hash = ForeignHash
    /\ unconfirmed_transactions = <<>>

\* C13: report_pet_found on a pet whose status is Active returns False and
\* leaves the registry (status, found_by, found_at), the pool and the chain
\* unchanged; no PET_FOUND event is emitted.
C13_FoundWhenActiveFails ==
    [][(/\ last'.op = "report_pet_found"
        /\ last' # last
        /\ HasPet(pets, last'.pet_id)
        /\ get_pet(pets, last'.pet_id).status = "active")
         => /\ last'.ret = PyBool(FALSE)
            /\ UNCHANGED <<pets, unconfirmed_transactions, chain, emitted>>]_vars

C13_Witness ==
    /\ last.op = "report_pet_found"
    /\ last.ret = PyBool(FALSE)
    /\ HasPet(pets, last.pet_id)
    /\ get_pet(pets, last.pet_id).status = "active"
    /\ "found_by" \notin DOMAIN get_pet(pets, last.pet_id)

\* C14: a report_pet_found that follows a successful report_pet_lost of the
\* same pet returns True, sets the status to Active and found_by to the
\* finder_contact supplied, and appends one PET_FOUND event right after the
\* one PET_LOST event of the report.
C14_LostThenFound ==
    [][(/\ last.op = "report_pet_lost"
        /\ last.ret = PyBool(TRUE)
        /\ last'.op = "report_pet_found"
        /\ last'.pet_id = last.pet_id)
         => LET id == last.pet_id
                pool == unconfirmed_transactions
            IN /\ last'.ret = PyBool(TRUE)
               /\ get_pet(pets', id).status = "active"
               /\ Get(get_pet(pets', id), "found_by", None) = last'.finder_contact
               /\ IsEvent(Last(pool), "PET_LOST", id)
               /\ Len(unconfirmed_transactions') = Len(pool) + 1
               /\ Take(unconfirmed_transactions', Len(pool)) = pool
               /\ IsEvent(Last(unconfirmed_transactions'), "PET_FOUND", id)
               /\ Len(EventsOf("PET_FOUND", id)') = Len(EventsOf("PET_FOUND", id)) + 1
               /\ Len(EventsOf("PET_LOST", id)') = Len(EventsOf("PET_LOST", id))]_vars

C14_Witness ==
    /\ last.op = "report_pet_found"
    /\ last.ret = PyBool(TRUE)
    /\ get_pet(pets, last.pet_id).status = "active"
    /\ get_pet(pets, last.pet_id).found_by = last.finder_contact
    /\ Len(unconfirmed_transactions) >= 2
    /\ IsEvent(unconfirmed_transactions[Len(unconfirmed_transactions) - 1],
               "PET_LOST", last.pet_id)
    /\ IsEvent(Last(unconfirmed_transactions), "PET_FOUND", last.pet_id)

\* C15: get_pet_blockchain_history(pet_id) returns exactly the transactions
\* with that pet_id, each once: the mined ones first, in chain order and
\* in-block order, with block_number and block_timestamp of their block,
\* then the pooled ones in insertion order with status = "pending"; the
\* empty list when the pet_id has no events.
C15_HistoryContent ==
    last.op = "get_pet_blockchain_history" =>
        LET history == last.ret.list
            at == PositionsOf(last.pet_id)
        IN /\ Len(history) = Len(at)
           /\ \A k \in DOMAIN at :
                  LET tx == Ledger[at[k]]
                  IN IF at[k] <= MinedUpTo(Len(chain))
                     THEN history[k] =
                              [block_number |-> BlockAt(at[k]).block_number,
                               block_timestamp |-> BlockAt(at[k]).timestamp] @@ tx
                     ELSE history[k] = [status |-> "pending"] @@ tx

C15_Witness ==
    /\ last.op = "get_pet_blockchain_history"
    /\ Len(last.ret.list) >= 2
    /\ "block_number" \in DOMAIN last.ret.list[1]
    /\ last.ret.list[1].block_number = 2
    /\ Get(Last(last.ret.list), "status", None) = "pending"

\* C16: right after a register_pet, with nothing mined since, the history of
\* the new pet_id is one entry marked status = "pending"; after the next
\* mining step the history is still one entry, for the same event, carrying
\* the new block's block_number and no pending marker.
C16_PendingThenMined ==
    [][/\ (/\ last'.op = "register_pet"
           /\ last' # last
           /\ PositionsOf(last'.ret.str) = <<>>)
          => LET after == get_pet_blockchain_history(
                              chain', unconfirmed_transactions', last'.ret.str)
             IN /\ Len(after) = 1
                /\ after[1].type = "PET_REGISTRATION"
                /\ after[1].status = "pending"
                /\ "block_number" \notin DOMAIN after[1]
       /\ (last'.op = "mine_block" /\ last' # last)
          => \A i \in DOMAIN pets :
                 LET id == pets[i].pet_id
                     before == get_pet_blockchain_history(
                                   chain, unconfirmed_transactions, id)
                     after == get_pet_blockchain_history(
                                  chain', unconfirmed_transactions', id)
                 IN (Len(before) = 1 /\ Get(before[1], "status", None) = "pending")
                    => /\ Len(after) = 1
                       /\ "status" \notin DOMAIN after[1]
                       /\ "block_number" \in DOMAIN after[1]
                       /\ after[1].block_number = last'.ret.block_number
                       /\ [status |-> "pending"] @@ after[1]
                              = [block_number |-> last'.ret.block_number,
                                 block_timestamp |-> last'.ret.timestamp] @@ before[1]
      ]_vars

C16_Witness ==
    /\ last.op = "mine_block"
    /\ Len(pets) = 1
    /\ LET history == get_pet_blockchain_history(
                          chain, unconfirmed_transactions, pets[1].pet_id)
       IN /\ Len(history) = 1
          /\ history[1].type = "PET_REGISTRATION"
          /\ "block_number" \in DOMAIN history[1]
          /\ history[1].block_number = last.ret.block_number
          /\ "status" \notin DOMAIN history[1]

\* C17: get_registry_stats returns total_pets = the number of profiles,
\* active_pets and lost_pets = the numbers with status active and lost (so
\* total_pets = active_pets + lost_pets), total_vet_records = the sum of the
\* lengths of the vet_records and total_views = the sum of the view_counts;
\* all five are 0 on an empty registry.
C17_StatsMatchRegistry ==
    last.op = "get_registry_stats" =>
        LET stats == last.ret
        IN /\ stats.total_pets = Len(pets)
           /\ stats.active_pets =
                  Cardinality({i \in DOMAIN pets : pets[i].status = "active"})
           /\ stats.lost_pets =
                  Cardinality({i \in DOMAIN pets : pets[i].status = "lost"})
           /\ stats.total_pets = stats.active_pets + stats.lost_pets
           /\ stats.total_vet_records =
                  Cardinality(UNION {{<<i, j>> : j \in DOMAIN pets[i].vet_records} :
                                         i \in DOMAIN pets})
           /\ stats.total_views =
                  Cardinality(UNION {{<<i, v>> : v \in 1..pets[i].view_count} :
                                         i \in DOMAIN pets})
           /\ pets = <<>> =>
                  stats = [total_pets |-> 0, active_pets |-> 0, lost_pets |-> 0,
                           total_vet_records |-> 0, total_views |-> 0]

C17_Witness ==
    /\ last.op = "get_registry_stats"
    /\ last.ret.total_pets = 2
    /\ last.ret.active_pets = 1
    /\ last.ret.lost_pets = 1

\* C18: register_pet succeeds for any pet data, also with every optional
\* field missing: it returns a pet_id, stores under it a profile with status
\* active, view_count 0, no vet_records, species "dog" unless a species is
\* given, and the supplied owner key, and appends exactly one
\* PET_REGISTRATION event for that pet_id to the pool.
C18_RegisterDefaults ==
    [][(last'.op = "register_pet" /\ emitted' # emitted)
         => LET id == last'.ret.str
                data == last'.pet_data
                profile == get_pet(pets', id)
                pool == unconfirmed_transactions
            IN /\ HasPet(pets', id)
               /\ profile.status = "active"
               /\ profile.view_count = 0
               /\ profile.vet_records = <<>>
               /\ profile.species =
                      IF "species" \in DOMAIN data THEN data.species ELSE "dog"
               /\ profile.owner_public_key = last'.owner_public_key
               /\ Len(unconfirmed_transactions') = Len(pool) + 1
               /\ Take(unconfirmed_transactions', Len(pool)) = pool
               /\ IsEvent(Last(unconfirmed_transactions'), "PET_REGISTRATION", id)
               /\ emitted' = Append(emitted, Last(unconfirmed_transactions'))]_vars

C18_Witness ==
    /\ last.op = "register_pet"
    /\ last.pet_data = <<>>
    /\ HasPet(pets, last.ret.str)
    /\ get_pet(pets, last.ret.str).species = "dog"
    /\ get_pet(pets, last.ret.str).name = None
    /\ IsEvent(Last(unconfirmed_transactions), "PET_REGISTRATION", last.ret.str)

\* C19: add_vet_record_to_pet, view_pet_profile, report_pet_lost and
\* report_pet_found called with an unknown pet_id return False, the value
\* the unauthorized case returns, and leave the registry, the pool and the
\* chain unchanged.
C19_UnknownPetFails ==
    [][(/\ last'.op \in {"add_vet_record_to_pet", "view_pet_profile",
                         "report_pet_lost", "report_pet_found"}
        /\ ~HasPet(pets, last'.pet_id))
         => /\ last'.ret = PyBool(FALSE)
            /\ UNCHANGED <<pets, unconfirmed_transactions, chain, emitted>>]_vars

C19_Witness ==
    /\ last.op = "view_pet_profile"
    /\ last.pet_id = UnknownPetId
    /\ ~HasPet(pets, last.pet_id)
    /\ last.ret = PyBool(FALSE)
    /\ pets # <<>>
    /\ unconfirmed_transactions # <<>>

\* C20: submit_transaction from a sender other than the mining-reward
\* identity whose signature check fails, by returning False or by raising,
\* returns False and leaves the pool, the chain and the registry unchanged.
C20_RejectedTransfer ==
    [][(/\ last'.op = "submit_transaction"
        /\ last'.sender_public_key # MINING_SENDER
        /\ last'.verifier # "valid")
         => /\ last'.ret = PyBool(FALSE)
            /\ UNCHANGED <<unconfirmed_transactions, chain, pets, emitted>>]_vars

C20_Witness ==
    /\ last.op = "submit_transaction"
    /\ last.sender_public_key = "K1"
    /\ last.verifier = "raises"
    /\ last.ret = PyBool(FALSE)
    /\ unconfirmed_transactions # <<>>

\* C21: a submit_transaction from MINING_SENDER appends the transfer to the
\* pool whatever the signature check would say, and every accepted
\* submit_transaction returns len(chain) + 1, the block_number of the block
\* that holds the transaction after the next create_block: the transaction
\* stays in the pool while the chain is unchanged, and the next block
\* appended is numbered len(chain) + 1 and starts with the whole pool.
C21_ProspectiveBlockNumber ==
    [][/\ (/\ last'.op = "submit_transaction"
           /\ last'.sender_public_key = MINING_SENDER
           /\ (last' # last \/ emitted' # emitted))
          => /\ Len(unconfirmed_transactions') = Len(unconfirmed_transactions) + 1
             /\ Last(unconfirmed_transactions').sender_public_key_hash
                    = hashed_key(MINING_SENDER)
       /\ (last'.op = "submit_transaction" /\ emitted' # emitted)
          => /\ last'.ret = PyInt(Len(chain) + 1)
             /\ chain' = chain
             /\ emitted' = Append(emitted, Last(unconfirmed_transactions'))
             /\ unconfirmed_transactions'
                    = Append(unconfirmed_transactions, Last(emitted'))
       /\ chain' = chain
          => Take(unconfirmed_transactions', Len(unconfirmed_transactions))
                 = unconfirmed_transactions
       /\ chain' # chain
          => /\ Len(chain') = Len(chain) + 1
             /\ Take(chain', Len(chain)) = chain
             /\ Last(chain').block_number = Len(chain) + 1
             /\ Take(Last(chain').transactions, Len(unconfirmed_transactions))
                    = unconfirmed_transactions
      ]_vars

C21_Witness ==
    /\ last.op = "submit_transaction"
    /\ last.sender_public_key = MINING_SENDER
    /\ last.verifier = "invalid"
    /\ last.ret = PyInt(3)
    /\ Len(chain) = 2
    /\ Len(chain[2].transactions) = 1
    /\ Get(chain[2].transactions[1], "sender_public_key_hash", None) = hashed_key("K1")
    /\ Len(unconfirmed_transactions) = 1

\* C22: no transaction in the pool or in a block holds a raw key a caller
\* supplied (owner, viewer, finder, sender or recipient key): every
\* key-derived field holds the hashed identifier of a key, or "UNKNOWN_KEY"
\* for an empty or absent key, and no other field holds a raw key.
C22_NoRawKeyInLedger ==
    \A i \in DOMAIN Ledger :
        LET tx == Ledger[i]
        IN /\ \A f \in DOMAIN tx \ IntKeys : tx[f] \notin RawKeys
           /\ \A f \in DOMAIN tx \cap KeyFields :
                  \/ tx[f] = "UNKNOWN_KEY"
                  \/ /\ Len(tx[f]) = DigestLen
                     /\ \E k \in RawKeys : tx[f] = Take(sha256_hexdigest(EncStr(k)), 24)

C22_Witness ==
    /\ Len(chain) >= 2
    /\ \E j \in DOMAIN unconfirmed_transactions :
           Get(unconfirmed_transactions[j], "viewer_public_key_hash", None)
               = "UNKNOWN_KEY"
    /\ \E j \in DOMAIN chain[2].transactions :
           Get(chain[2].transactions[j], "owner_public_key_hash", None)
               = Take(sha256_hexdigest(EncStr("K1")), 24)

\* C24: on every registry register_pet can produce, also with pets that
\* have no name, microchip_id or breed, search_pets(query, lost_only)
\* returns, without raising, the profiles in storage order that are lost
\* (when lost_only) and hold the query as a case-insensitive substring of
\* name, microchip_id, breed or pet_id (when a query is given).
C24_SearchContract ==
    last.op = "search_pets" =>
        /\ "list" \in DOMAIN last.ret
        /\ last.ret.list =
               SelectSeq(pets,
                   LAMBDA p :
                       /\ last.lost_only => p.status = "lost"
                       /\ (last.query # None /\ last.query # "")
                           => \/ FieldHas(p.name, last.query)
                              \/ FieldHas(p.microchip_id, last.query)
                              \/ FieldHas(p.breed, last.query)
                              \/ FieldHas(p.pet_id, last.query))

\* C23: no response of a search, profile-lookup or registration route holds
\* the raw owner_public_key of a profile: the profiles returned have no
\* owner_public_key entry and none of their entries is a value that passes
\* the ownership check of report_pet_lost or add_vet_record_to_pet.
C23_NoRawOwnerKeyInResults ==
    \A i \in DOMAIN ReturnedProfiles :
        LET p == ReturnedProfiles[i]
        IN /\ "owner_public_key" \notin DOMAIN p
           /\ \A f \in DOMAIN p \ NonStringFields : p[f] \notin StoredOwnerKeys

\* C25: in every reachable state the chain is non-empty and its first block
\* is the genesis block as the constructor made it: block_number 1,
\* previous_hash "00", nonce 0, no transactions, the construction time as
\* timestamp; no operation changes or removes it.
C25_GenesisKept ==
    /\ Len(chain) >= 1
    /\ chain[1] = [block_number |-> 1, timestamp |-> 0, transactions |-> <<>>,
                   nonce |-> 0, previous_hash |-> "00"]

C25_Witness ==
    /\ Len(chain) >= 3
    /\ chain[2].transactions # <<>>
    /\ chain[3].previous_hash = ForeignHash
    /\ chain[1].nonce = 0
    /\ chain[1].transactions = <<>>

\* C26: the chain is append-only and its blocks are immutable: in every
\* step the chain before is a prefix of the chain after, block for block
\* with the same block_number, timestamp, transactions, nonce and
\* previous_hash, and a step adds at most one block.
C26_AppendOnly ==
    [][/\ Len(chain') \in {Len(chain), Len(chain) + 1}
       /\ \A i \in DOMAIN chain :
              /\ chain'[i].block_number = chain[i].block_number
              /\ chain'[i].transactions = chain[i].transactions
              /\ chain'[i].nonce = chain[i].nonce
              /\ chain'[i].previous_hash = chain[i].previous_hash
              /\ chain'[i] = chain[i]]_vars

C26_Witness ==
    /\ last.op = "mine_block"
    /\ Len(chain) = 3
    /\ chain[2].transactions # <<>>
    /\ chain[3] = last.ret

\* C27: a profile is created once and never deleted or replaced: in every
\* step, also a register_pet, each pet_id of the registry stays in it with
\* the same owner key and registered_at, its view_count does not decrease
\* and its vet_records only grow at the end.
C27_ProfileKept ==
    [][\A i \in DOMAIN pets :
         LET old == pets[i]
         IN /\ HasPet(pets', old.pet_id)
            /\ LET new == get_pet(pets', old.pet_id)
               IN /\ new.owner_public_key = old.owner_public_key
                  /\ new.registered_at = old.registered_at
                  /\ new.view_count >= old.view_count
                  /\ Len(new.vet_records) >= Len(old.vet_records)
                  /\ Take(new.vet_records, Len(old.vet_records)) = old.vet_records]_vars

\* C28: with mining requests that keep being made, every transaction that
\* enters the pool is eventually in a block: the n-th transaction appended
\* is eventually among the mined ones; transactions are mined in the order
\* they were appended; the block a mining request appends takes the whole
\* pool; and a mined transaction stays in its block.
C28_EventuallyMined ==
    /\ [](Ledger = emitted)
    /\ [][/\ chain' # chain
              => /\ Take(Last(chain').transactions, Len(unconfirmed_transactions))
                        = unconfirmed_transactions
                 /\ unconfirmed_transactions' = <<>>
          /\ \A i \in DOMAIN chain : chain'[i] = chain[i]]_vars
    /\ \A n \in 1..MaxSteps :
           (Len(emitted) >= n) ~> (Len(BlocksTxs(chain, 1)) >= n)

C28_Witness ==
    /\ Len(chain) = 2
    /\ Len(chain[2].transactions) = 2
    /\ IsEvent(chain[2].transactions[1], "PET_REGISTRATION", pets[1].pet_id)
    /\ unconfirmed_transactions = <<>>
    /\ emitted = chain[2].transactions

\* C29: Blockchain.hash depends only on the values of the block's fields:
\* every insertion order of the fields is serialized in the one sorted key
\* order, the digest a call returned is the digest of the same field values
\* inserted in another order, and it is the same in whatever state of pool,
\* chain and registry it is computed again.
C29_HashByValue ==
    last.op = "hash" =>
        /\ \A o \in AllKeyOrders : sorted_keys(o) = sorted_keys(last.keys)
        /\ \A o \in KeyOrders : hash_of(o, last.block) = last.ret.str
        /\ hash(last.block) = last.ret.str
        /\ \A i \in DOMAIN chain :
               chain[i] = last.block => hash(chain[i]) = last.ret.str

C29_Witness ==
    /\ last.op = "hash"
    /\ last.keys # BlockKeys
    /\ last.block.block_number = 2
    /\ Len(last.block.transactions) = 2
    /\ Len(chain) = 2

\* C30: in single-threaded runs in which only mining requests (of either
\* route) add blocks, interleaved with the orchestrator's operations, the
\* first block keeps previous_hash "00" and every later block's
\* previous_hash is the hash of the block right before it in the chain.
C30_MinedChainLinked ==
    /\ chain[1].previous_hash = "00"
    /\ \A i \in DOMAIN chain :
           i > 1 => chain[i].previous_hash = hash(chain[i - 1])

C30_Witness ==
    /\ Len(chain) = 3
    /\ last.op = "mine_block"
    /\ last.route = "/api/mine"
    /\ chain[2].transactions # <<>>
    /\ chain[3].previous_hash = hash(chain[2])
    /\ chain[3].previous_hash # chain[2].previous_hash

\* C31: with two mining requests interleaved (each reads the last block and
\* its hash, searches a nonce and calls create_block), every block after the
\* first stores the hash of the block before it, and the block numbers are
\* unique and consecutive.
C31_ConcurrentMiningLinked ==
    /\ \A i \in 2..Len(chain) : chain[i].previous_hash = hash(chain[i - 1])
    /\ \A i \in 2..Len(chain) : chain[i].block_number = chain[i - 1].block_number + 1
    /\ \A i, j \in DOMAIN chain : i # j => chain[i].block_number # chain[j].block_number

\* C32: in every reachable state the i-th block of the chain (counted from
\* 1) has block_number i: block numbers start at 1, increase by one from
\* block to block and are unique.
C32_BlockNumbersSequential ==
    /\ \A i \in DOMAIN chain : chain[i].block_number = i
    /\ \A i, j \in DOMAIN chain : i < j => chain[i].block_number < chain[j].block_number

C32_Witness ==
    /\ last.op = "create_block"
    /\ Len(chain) = 3
    /\ chain[2].block_number = 2
    /\ last.ret.block_number = 3
    /\ chain[3] = last.ret

\* C33: with operations executed atomically, the transactions of the blocks
\* in chain order followed by the pool are the accepted events and transfers
\* in the order they were appended (none lost, duplicated or reordered, each
\* in one place only); while no block is added the pool changes only by an
\* append at its end, and a new block takes the whole pool and leaves it
\* empty.
C33_LedgerIsEmitted ==
    /\ [](/\ Ledger = emitted
          /\ \A i \in DOMAIN emitted :
                 Count(Ledger, emitted[i]) = Count(emitted, emitted[i]))
    /\ [][/\ chain' = chain
              => \/ unconfirmed_transactions' = unconfirmed_transactions
                 \/ /\ Len(unconfirmed_transactions') = Len(unconfirmed_transactions) + 1
                    /\ Take(unconfirmed_transactions', Len(unconfirmed_transactions))
                           = unconfirmed_transactions
          /\ chain' # chain
              => /\ unconfirmed_transactions' = <<>>
                 /\ Take(Last(chain').transactions, Len(unconfirmed_transactions))
                        = unconfirmed_transactions]_vars

C33_Witness ==
    /\ Len(chain) = 2
    /\ Len(chain[2].transactions) = 1
    /\ Len(unconfirmed_transactions) = 1
    /\ unconfirmed_transactions[1] # chain[2].transactions[1]
    /\ emitted = <<chain[2].transactions[1], unconfirmed_transactions[1]>>

\* C34: report_pet_lost called with the stored owner key on a pet that is
\* lost already returns True, leaves the status lost, sets lost_location and
\* lost_description to the values of this call, and appends one more
\* PET_LOST event, with those values, at the end of the pool.
C34_LostAgain ==
    [][(/\ last'.op = "report_pet_lost"
        /\ (last' # last \/ emitted' # emitted)
        /\ HasPet(pets, last'.pet_id)
        /\ get_pet(pets, last'.pet_id).status = "lost"
        /\ get_pet(pets, last'.pet_id).owner_public_key = last'.owner_public_key)
         => LET id == last'.pet_id
                after == get_pet(pets', id)
                pool == unconfirmed_transactions
            IN /\ last'.ret = PyBool(TRUE)
               /\ after.status = "lost"
               /\ after.lost_location = last'.location
               /\ after.lost_description = last'.description
               /\ Len(unconfirmed_transactions') = Len(pool) + 1
               /\ Take(unconfirmed_transactions', Len(pool)) = pool
               /\ IsEvent(Last(unconfirmed_transactions'), "PET_LOST", id)
               /\ Last(unconfirmed_transactions').location = last'.location
               /\ Last(unconfirmed_transactions').description = last'.description
               /\ emitted' = Append(emitted, Last(unconfirmed_transactions'))
               /\ chain' = chain]_vars

C34_Witness ==
    /\ last.op = "report_pet_lost"
    /\ last.ret = PyBool(TRUE)
    /\ last.location = "City2"
    /\ last.description = "second"
    /\ get_pet(pets, last.pet_id).status = "lost"
    /\ get_pet(pets, last.pet_id).lost_location = "City2"
    /\ get_pet(pets, last.pet_id).lost_description = "second"
    /\ Len(unconfirmed_transactions) = 3
    /\ IsEvent(unconfirmed_transactions[2], "PET_LOST", last.pet_id)
    /\ unconfirmed_transactions[2].location = "Central Park"
    /\ IsEvent(unconfirmed_transactions[3], "PET_LOST", last.pet_id)
    /\ unconfirmed_transactions[3].location = "City2"

\* C35: a pet's status can be rebuilt from the ledger: in every reachable
\* state the status is lost exactly when the most recent PET_LOST or
\* PET_FOUND event for the pet, blocks in chain order and then the pool, is
\* a PET_LOST, and active when there is no such event or the most recent
\* one is a PET_FOUND.
C35_StatusFromLedger ==
    \A i \in DOMAIN pets :
        LET toggles == SelectSeq(Ledger,
                           LAMBDA tx : \/ IsEvent(tx, "PET_LOST", pets[i].pet_id)
                                       \/ IsEvent(tx, "PET_FOUND", pets[i].pet_id))
            rebuilt == IF toggles # <<>> /\ Last(toggles).type = "PET_LOST"
                       THEN "lost" ELSE "active"
        IN /\ pets[i].status \in {"lost", "active"}
           /\ pets[i].status = rebuilt

\* C36: for every pet in every reachable state the vet_records are as many
\* as the VET_RECORD events for the pet in the chain and the pool, the k-th
\* record has the record_id, record_type and vet_name of the k-th such
\* event, and a successful add_vet_record_to_pet returned the record_id of
\* the record it added.
C36_VetRecordsMatchEvents ==
    /\ \A i \in DOMAIN pets :
           LET events == SelectSeq(Ledger,
                             LAMBDA tx : IsEvent(tx, "VET_RECORD", pets[i].pet_id))
               records == pets[i].vet_records
           IN /\ Len(records) = Len(events)
              /\ \A k \in DOMAIN records \cap DOMAIN events :
                     /\ records[k].record_id = events[k].record_id
                     /\ records[k].record_type = events[k].record_type
                     /\ records[k].vet_name = events[k].vet_name
    /\ (last.op = "add_vet_record_to_pet" /\ "str" \in DOMAIN last.ret)
           => /\ HasPet(pets, last.pet_id)
              /\ get_pet(pets, last.pet_id).vet_records # <<>>
              /\ Last(get_pet(pets, last.pet_id).vet_records).record_id = last.ret.str

\* C37: every VET_RECORD and PET_LOST event in the pool or in a block names
\* a pet of the registry and carries the owner_public_key_hash stored in
\* that pet's profile, which is the hashed identifier of the profile's
\* owner key: no owner-gated event was emitted for a caller with another key.
C37_OwnerGatedEvents ==
    \A j \in DOMAIN Ledger :
        LET tx == Ledger[j]
        IN ("type" \in DOMAIN tx /\ tx.type \in {"VET_RECORD", "PET_LOST"})
               => /\ HasPet(pets, tx.pet_id)
                  /\ tx.owner_public_key_hash
                         = get_pet(pets, tx.pet_id).owner_public_key_hash
                  /\ tx.owner_public_key_hash
                         = hashed_key(get_pet(pets, tx.pet_id).owner_public_key)

C37_Witness ==
    /\ Len(chain) = 2
    /\ Len(chain[2].transactions) = 2
    /\ last.op = "mine_block"
    /\ Len(pets) = 1
    /\ \/ IsEvent(chain[2].transactions[2], "VET_RECORD", pets[1].pet_id)
       \/ IsEvent(chain[2].transactions[2], "PET_LOST", pets[1].pet_id)
    /\ chain[2].transactions[2].owner_public_key_hash = pets[1].owner_public_key_hash
    /\ pets[1].owner_public_key_hash # "UNKNOWN_KEY"

\* C38: the PET_REGISTRATION event a register_pet call appends carries the
\* pet_name, species, microchip_id and owner key hash of the profile the same
\* call stored, for any pet data, also data with fields missing.
C38_EventMatchesProfile ==
    [][(last'.op = "register_pet" /\ emitted' # emitted)
         => LET event == Last(unconfirmed_transactions')
                profile == get_pet(pets', event.pet_id)
            IN /\ event.type = "PET_REGISTRATION"
               /\ HasPet(pets', event.pet_id)
               /\ event.pet_name = profile.name
               /\ event.microchip_id = profile.microchip_id
               /\ event.owner_public_key_hash = profile.owner_public_key_hash
               /\ event.species = profile.species]_vars

\* C39: frame conditions between ledger and registry.  create_block,
\* proof_of_work and a mining request change no profile; register_pet,
\* add_vet_record_to_pet, view_pet_profile, report_pet_lost,
\* report_pet_found and submit_transaction leave the chain as it is and the
\* pool as it is or one transaction longer at its end;
\* get_pet_blockchain_history, get_registry_stats, search_pets and get_pet
\* change neither chain, pool nor registry.
C39_Frames ==
    [][/\ last'.op \in {"create_block", "proof_of_work", "mine_block"}
          => pets' = pets
       /\ last'.op \in {"register_pet", "add_vet_record_to_pet", "view_pet_profile",
                       "report_pet_lost", "report_pet_found", "submit_transaction"}
          => /\ chain' = chain
             /\ \/ unconfirmed_transactions' = unconfirmed_transactions
                \/ /\ Len(unconfirmed_transactions') = Len(unconfirmed_transactions) + 1
                   /\ Take(unconfirmed_transactions', Len(unconfirmed_transactions))
                          = unconfirmed_transactions
       /\ last'.op \in {"get_pet_blockchain_history", "get_registry_stats",
                       "search_pets", "get_pet"}
          => UNCHANGED <<chain, unconfirmed_transactions, pets, emitted>>]_vars

C39_Witness ==
    /\ last.op = "get_pet"
    /\ HasPet(pets, last.pet_id)
    /\ last.ret = get_pet(pets, last.pet_id)
    /\ last.ret.view_count = 1
    /\ Len(chain) = 2
    /\ Len(chain[2].transactions) = 2

====
